---- MODULE Spec2Model ----
(***************************************************************************)
(* Model of the streaming translator hook (useLocalTranslator, the variant *)
(* that posts WAV segments and plays the streamed PCM answer):             *)
(* src/hooks/useGeminiTranslator.ts lines 15-346, with the start and stop  *)
(* controls of src/App.tsx.                                                *)
(*                                                                         *)
(* Everything runs on one JavaScript event loop: an action of the model is *)
(* one run-to-completion step (a handler, or the continuation of an async  *)
(* function from one await to the next).                                   *)
(*                                                                         *)
(* Units: buffer lengths are samples at TARGET_SAMPLE_RATE; playback times *)
(* are sample periods of TARGET_SAMPLE_RATE (so a buffer of n samples has  *)
(* duration n); amplitudes are thousandths of full scale.                  *)
(***************************************************************************)
EXTENDS Integers, Sequences, FiniteSets, TLC

\* ---------------------------------------------------------------- constants
TARGET_SAMPLE_RATE == 24000
INPUT_SAMPLE_RATE == 44100
SCRIPT_BUFFER_SIZE == 4096
SILENCE_THRESHOLD == 10
SILENCE_STRIDE == 100

\* ------------------------------------------------------------------- bounds
\* POSTs issued through sendAudioPayload over the life of the hook
MaxRequests == 2
\* capture callbacks delivered back to back in one step of the model
BlocksPerBurst == 11
\* bursts of capture callbacks delivered over the life of the hook
MaxBursts == 4
\* chunks read from response streams over the life of the hook
MaxChunks == 2
\* largest chunk read from a response stream, in bytes
MaxChunkBytes == 4
\* largest value of an output context's clock, in sample periods
MaxClock == 2
\* output audio contexts created over the life of the hook
MaxOutputContexts == 2
\* clips received by the JSON variant
MaxClips == 3
\* equal segments read back to back in the scheduling scenario
SegmentCount == 3
\* the duration of each of them ("one second"), in sample periods
Second == 2

\* the startTranslation calls followed: a session and its restart
StartIds == {1, 2}
RequestIds == 1..MaxRequests
OutputIds == 1..MaxOutputContexts

\* the longest buffer and the highest sample rate handed to downsampleBuffer
MaxSamples == 3
MaxRate == 6
ClipIds == 1..MaxClips

\* amplitude of a loud capture block, thousandths of full scale
LOUD == 15

DISCONNECTED == "DISCONNECTED"
CONNECTING == "CONNECTING"
CONNECTED == "CONNECTED"
ERROR == "ERROR"

VARIABLES
  \* React state of the hook
  connectionState, error, statusMessage, sourceStream,
  \* the sourceStream value closed over by the committed cleanup/stopTranslation
  committedStream,
  mounted,
  \* refs
  inputContextRef, outputContextRef, processorRef, sourceNodeRef,
  audioBufferRef, isProcessingRef, nextStartTimeRef,
  \* the platform: live tracks, open input contexts, connected nodes, timers,
  \* output contexts
  liveTracks, inputOpen, connectedNodes, intervals, outputContexts,
  \* async activations: startTranslation calls and sendAudioPayload calls
  starts, requests,
  \* bookkeeping of what happened
  chunkCount, nextBlockId, takenCount, lastScheduled,
  \* the sources scheduled for a run of equal segments read back to back
  enqueued,
  \* the Whisper variant: the speech recognizer has been loaded
  transcriberRef,
  \* the JSON variant: the queue of received clips, the playing flag, the calls
  \* of playNextInQueue waiting for the output context to resume, what has
  \* become of each clip, and the clips in the order of their source.start()
  audioQueueRef, isPlayingRef, players, clips, startedClips,
  \* stopTranslation statement by statement: the statement it has come to (0:
  \* it is not running) and what it has released so far, in order
  teardownPc, released,
  \* a call of one of the audio utility functions: its arguments and what it
  \* has returned
  utilCall, utilResult

reactVars == <<connectionState, error, statusMessage, sourceStream,
               committedStream, mounted>>
refVars == <<inputContextRef, outputContextRef, processorRef, sourceNodeRef,
             audioBufferRef, isProcessingRef, nextStartTimeRef>>
platformVars == <<liveTracks, inputOpen, connectedNodes, intervals, outputContexts>>
taskVars == <<starts, requests>>
historyVars == <<chunkCount, nextBlockId, takenCount, lastScheduled, enqueued>>
utilVars == <<utilCall, utilResult>>
variantVars == <<transcriberRef, audioQueueRef, isPlayingRef, players, clips, startedClips,
                 teardownPc, released, utilVars>>
vars == <<reactVars, refVars, platformVars, taskVars, historyVars, variantVars>>

\* ------------------------------------------------------------------ helpers
Max(a, b) == IF a > b THEN a ELSE b

\* Math.round(a / b) for positive integers a, b
RoundDiv(a, b) == (2 * a + b) \div (2 * b)

RECURSIVE Concat(_)
Concat(ss) == IF ss = <<>> THEN <<>> ELSE Head(ss) \o Concat(Tail(ss))

\* ------------------------------------------------------------ initial state
NoRequest == [kind |-> "none", owner |-> 0, pc |-> "none", seg |-> <<>>, ctx |-> 0, bytes |-> 0]
IdleStart == [pc |-> "idle", stream |-> 0]
NoContext == [state |-> "none", time |-> 0]
\* a closed context; its clock is not read any more
ClosedContext == [state |-> "closed", time |-> 0]
\* the last source started by scheduleAudioChunk: the request it plays, its
\* context, its start and duration, and whether the cursor had fallen behind
\* the clock
NothingScheduled == [req |-> 0, ctx |-> 0, start |-> 0, dur |-> 0, late |-> FALSE]

\* no utility call
NoCall == [fn |-> "none"]
NoResult == [done |-> FALSE, threw |-> FALSE, value |-> <<>>]

\* the hook after its first render
InitSession ==
  /\ connectionState = DISCONNECTED
  /\ error = ""
  /\ statusMessage = ""
  /\ sourceStream = 0
  /\ committedStream = 0
  /\ mounted = TRUE
  /\ inputContextRef = 0
  /\ outputContextRef = 0
  /\ processorRef = 0
  /\ sourceNodeRef = 0
  /\ audioBufferRef = <<>>
  /\ isProcessingRef = FALSE
  /\ nextStartTimeRef = 0
  /\ liveTracks = {}
  /\ inputOpen = {}
  /\ connectedNodes = {}
  /\ intervals = {}
  /\ outputContexts = [c \in OutputIds |-> NoContext]
  /\ starts = [s \in StartIds |-> IdleStart]
  /\ requests = [r \in RequestIds |-> NoRequest]
  /\ chunkCount = 0
  /\ nextBlockId = 1
  /\ takenCount = 0
  /\ lastScheduled = NothingScheduled
  /\ enqueued = <<>>
  /\ transcriberRef = FALSE
  /\ audioQueueRef = <<>>
  /\ isPlayingRef = FALSE
  /\ players = 0
  /\ clips = [c \in ClipIds |-> "none"]
  /\ startedClips = <<>>
  /\ teardownPc = 0
  /\ released = <<>>

Init ==
  /\ InitSession
  /\ utilCall = NoCall
  /\ utilResult = NoResult

\* React has rendered the current sourceStream: the committed cleanup and
\* stopTranslation close over it. After a step that changes sourceStream the
\* re-render and the effect's cleanup function (Commit) run before any other
\* event is handled.
Settled == sourceStream = committedStream

\* --------------------------------------------------------- cleanup and stop
\* cleanup, as closed over the sourceStream value cs of its render
cleanup(cs) ==
  /\ liveTracks' = IF cs # 0 THEN {t \in liveTracks : t[1] # cs} ELSE liveTracks
  /\ sourceStream' = IF cs # 0 THEN 0 ELSE sourceStream
  /\ connectedNodes' = connectedNodes \ {<<processorRef, "processor">>, <<sourceNodeRef, "source">>}
  /\ processorRef' = 0
  /\ sourceNodeRef' = 0
  /\ inputOpen' = inputOpen \ {inputContextRef}
  /\ inputContextRef' = IF inputContextRef \in inputOpen THEN 0 ELSE inputContextRef
  /\ outputContexts' = IF outputContextRef # 0 /\ outputContexts[outputContextRef].state # "closed"
                          THEN [outputContexts EXCEPT ![outputContextRef] = ClosedContext]
                          ELSE outputContexts
  /\ outputContextRef' = IF outputContextRef # 0 /\ outputContexts[outputContextRef].state # "closed"
                            THEN 0 ELSE outputContextRef
  /\ connectionState' = DISCONNECTED
  /\ statusMessage' = ""

stopTranslation(cs) ==
  /\ intervals' = IF processorRef # 0 THEN intervals \ {processorRef} ELSE intervals
  /\ cleanup(cs)

\* what stopTranslation leaves alone
StopFrame == UNCHANGED <<error, audioBufferRef, isProcessingRef,
                         nextStartTimeRef, starts, requests, historyVars, variantVars>>

\* the Stop button of the App, shown while Connecting or Connected
StopClick ==
  /\ mounted
  /\ connectionState \in {CONNECTING, CONNECTED}
  /\ Settled
  /\ stopTranslation(committedStream)
  /\ UNCHANGED <<committedStream, mounted>>
  /\ StopFrame

\* stopTranslation as returned by the hook, called in any state
StopCall ==
  /\ mounted
  /\ Settled
  /\ stopTranslation(committedStream)
  /\ UNCHANGED <<committedStream, mounted>>
  /\ StopFrame

\* a stopTranslation that disconnects the nodes before it stops the tracks
TeardownOrderNodesFirst == <<"interval", "processor", "source", "tracks", "input", "output", "state">>

\* the statements of stopTranslation and of the cleanup it calls, in the order
\* of the code: clearInterval, the tracks of the stream, the processor node,
\* the source node, the input context, the output context, the state
TeardownOrder == <<"interval", "tracks", "processor", "source", "input", "output", "state">>

\* stopTranslation is called (in any state) and comes to its first statement
TeardownBegin ==
  /\ mounted
  /\ Settled
  /\ teardownPc = 0
  /\ teardownPc' = 1
  /\ released' = <<>>
  /\ UNCHANGED <<reactVars, refVars, platformVars, taskVars, historyVars, utilVars, transcriberRef,
                 audioQueueRef, isPlayingRef, players, clips, startedClips>>

\* stopTranslation executes the statement it has come to: the statement
\* releases what its condition finds, and the call goes on to the next one
TeardownStep ==
  /\ teardownPc \in 1..Len(TeardownOrder)
  /\ teardownPc' = IF teardownPc = Len(TeardownOrder) THEN 0 ELSE teardownPc + 1
  /\ LET k == TeardownOrder[teardownPc]
         cs == committedStream
         does == CASE k = "interval" -> processorRef # 0 /\ processorRef \in intervals
                   [] k = "tracks" -> cs # 0
                   [] k = "processor" -> processorRef # 0
                   [] k = "source" -> sourceNodeRef # 0
                   [] k = "input" -> inputContextRef \in inputOpen
                   [] k = "output" -> outputContextRef \in OutputIds /\ outputContexts[outputContextRef].state # "closed"
                   [] k = "state" -> FALSE
     IN /\ released' = IF does THEN Append(released, k) ELSE released
        /\ intervals' = IF k = "interval" /\ does THEN intervals \ {processorRef} ELSE intervals
        /\ liveTracks' = IF k = "tracks" /\ does THEN {t \in liveTracks : t[1] # cs} ELSE liveTracks
        /\ sourceStream' = IF k = "tracks" /\ does THEN 0 ELSE sourceStream
        /\ connectedNodes' = CASE k = "processor" /\ does -> connectedNodes \ {<<processorRef, "processor">>}
                                [] k = "source" /\ does -> connectedNodes \ {<<sourceNodeRef, "source">>}
                                [] OTHER -> connectedNodes
        /\ processorRef' = IF k = "processor" THEN 0 ELSE processorRef
        /\ sourceNodeRef' = IF k = "source" THEN 0 ELSE sourceNodeRef
        /\ inputOpen' = IF k = "input" /\ does THEN inputOpen \ {inputContextRef} ELSE inputOpen
        /\ inputContextRef' = IF k = "input" /\ does THEN 0 ELSE inputContextRef
        /\ outputContexts' = IF k = "output" /\ does
                                THEN [outputContexts EXCEPT ![outputContextRef] = ClosedContext]
                                ELSE outputContexts
        /\ outputContextRef' = IF k = "output" /\ does THEN 0 ELSE outputContextRef
        /\ connectionState' = IF k = "state" THEN DISCONNECTED ELSE connectionState
        /\ statusMessage' = IF k = "state" THEN "" ELSE statusMessage
  /\ UNCHANGED <<error, committedStream, mounted, audioBufferRef, isProcessingRef,
                 nextStartTimeRef, taskVars, historyVars, utilVars, transcriberRef, audioQueueRef,
                 isPlayingRef, players, clips, startedClips>>

\* a render in which sourceStream has changed: cleanup and stopTranslation get a
\* new identity, so the effect's cleanup function runs the previous
\* stopTranslation
Commit ==
  /\ mounted
  /\ ~Settled
  /\ committedStream' = sourceStream
  /\ stopTranslation(committedStream)
  /\ UNCHANGED mounted
  /\ StopFrame

\* the component goes away: the effect's cleanup function runs stopTranslation
Unmount ==
  /\ mounted
  /\ Settled
  /\ mounted' = FALSE
  /\ stopTranslation(committedStream)
  /\ UNCHANGED committedStream
  /\ StopFrame

\* ------------------------------------------------------------- startTranslation
NextStart == CHOOSE s \in StartIds : starts[s].pc = "idle" /\ \A t \in StartIds : t < s => starts[t].pc # "idle"
NextRequest == CHOOSE r \in RequestIds : requests[r].pc = "none" /\ \A q \in RequestIds : q < r => requests[q].pc # "none"
FreeStart == \E s \in StartIds : starts[s].pc = "idle"
FreeRequest == \E r \in RequestIds : requests[r].pc = "none"

\* the catch block of startTranslation, reached by start s with message m
StartCatch(s, m) ==
  /\ liveTracks' = {t \in liveTracks : t[1] # starts[s].stream \/ starts[s].stream = 0}
  /\ sourceStream' = 0
  /\ error' = m
  /\ statusMessage' = ""
  /\ connectionState' = ERROR
  /\ starts' = [starts EXCEPT ![s].pc = "done"]

\* startTranslation that goes from the warm-up straight to checkConnection
ToGetMediaSkipsCapture(s, supported, msg) ==
  /\ starts' = [starts EXCEPT ![s].pc = "probe"]
  /\ statusMessage' = msg
  /\ UNCHANGED <<liveTracks, sourceStream, error, connectionState>>

\* startTranslation from "2. Start Microphone/Tab Audio" to the call of
\* getDisplayMedia; msg is the status text left by the code before it
ToGetMedia(s, supported, msg) ==
  IF supported
    THEN /\ starts' = [starts EXCEPT ![s].pc = "getMedia"]
         /\ statusMessage' = msg
         /\ UNCHANGED <<liveTracks, sourceStream, error, connectionState>>
    ELSE StartCatch(s, "Browser does not support screen sharing.")

\* the Start button of the App, shown while neither Connecting nor Connected;
\* instruction tells whether config.instruction is non-blank
StartClick(instruction, supported) ==
  /\ mounted
  /\ connectionState \notin {CONNECTING, CONNECTED}
  /\ Settled
  /\ FreeStart
  /\ LET s == NextStart IN
       IF instruction
         THEN /\ starts' = [starts EXCEPT ![s].pc = "ttsLoad"]
              /\ connectionState' = CONNECTING
              /\ error' = ""
              /\ statusMessage' = "Initializing TTS Model..."
              /\ UNCHANGED <<liveTracks, sourceStream>>
         ELSE IF supported
           THEN /\ starts' = [starts EXCEPT ![s].pc = "getMedia"]
                /\ connectionState' = CONNECTING
                /\ error' = ""
                /\ UNCHANGED <<liveTracks, sourceStream, statusMessage>>
           ELSE StartCatch(s, "Browser does not support screen sharing.")
  /\ UNCHANGED <<committedStream, mounted, refVars, inputOpen,
                 connectedNodes, intervals, outputContexts, requests, historyVars>>
  /\ UNCHANGED variantVars

\* generateAndSendInstruction: the text-to-speech pipeline has loaded, or failed
TtsLoaded(s, ok) ==
  /\ Settled
  /\ starts[s].pc = "ttsLoad"
  /\ starts' = [starts EXCEPT ![s].pc = IF ok THEN "ttsSynth" ELSE "ttsDelay"]
  /\ statusMessage' = IF ok THEN "Generating Instruction Audio..."
                            ELSE "TTS Failed, skipping instruction..."
  /\ UNCHANGED <<connectionState, error, sourceStream, committedStream,
                 mounted, refVars, platformVars, requests, historyVars>>
  /\ UNCHANGED variantVars

\* generateAndSendInstruction: the instruction audio has been synthesized (and
\* sendAudioPayload posts it), or synthesis failed
TtsSynthesized(s, ok) ==
  /\ Settled
  /\ starts[s].pc = "ttsSynth"
  /\ IF ok
       THEN /\ FreeRequest
            /\ requests' = [requests EXCEPT ![NextRequest] =
                              [NoRequest EXCEPT !.kind = "instruction", !.owner = s, !.pc = "fetch"]]
            /\ starts' = [starts EXCEPT ![s].pc = "ttsSend"]
            /\ statusMessage' = "Sending Instruction..."
       ELSE /\ starts' = [starts EXCEPT ![s].pc = "ttsDelay"]
            /\ statusMessage' = "TTS Failed, skipping instruction..."
            /\ UNCHANGED requests
  /\ UNCHANGED <<connectionState, error, sourceStream, committedStream,
                 mounted, refVars, platformVars, historyVars>>
  /\ UNCHANGED variantVars

\* generateAndSendInstruction: the 2 s pause after a failure is over
TtsDelayDone(s, supported) ==
  /\ Settled
  /\ starts[s].pc = "ttsDelay"
  /\ ToGetMedia(s, supported, statusMessage)
  /\ UNCHANGED <<committedStream, mounted, refVars, inputOpen,
                 connectedNodes, intervals, outputContexts, requests, historyVars>>
  /\ UNCHANGED variantVars

\* getDisplayMedia rejects: the user declined, or another failure
GetMediaRejected(s, declined) ==
  /\ Settled
  /\ starts[s].pc = "getMedia"
  /\ StartCatch(s, IF declined THEN "Screen sharing cancelled by user." ELSE "getDisplayMedia failed")
  /\ UNCHANGED <<committedStream, mounted, refVars, inputOpen,
                 connectedNodes, intervals, outputContexts, requests, historyVars>>
  /\ UNCHANGED variantVars

\* getDisplayMedia resolves with a stream that has a video track and, if audio,
\* an audio track; with audio, checkConnection starts its GET
GetMediaResolved(s, audio) ==
  /\ Settled
  /\ starts[s].pc = "getMedia"
  /\ IF audio
       THEN /\ sourceStream' = s
            /\ liveTracks' = liveTracks \cup {<<s, "audio">>}
            /\ starts' = [starts EXCEPT ![s] = [pc |-> "probe", stream |-> s]]
            /\ UNCHANGED <<connectionState, error, statusMessage>>
       ELSE /\ sourceStream' = 0
            /\ liveTracks' = liveTracks
            /\ starts' = [starts EXCEPT ![s] = [pc |-> "done", stream |-> s]]
            /\ error' = "No audio found! Check 'Also share tab audio'."
            /\ statusMessage' = ""
            /\ connectionState' = ERROR
  /\ UNCHANGED <<committedStream, mounted, refVars, inputOpen,
                 connectedNodes, intervals, outputContexts, requests, historyVars>>
  /\ UNCHANGED variantVars

\* startTranslation from the creation of the source node to setConnectionState:
\* wiring either throws (wired = FALSE) or completes
WirePipeline(s, wired) ==
  IF wired
    THEN /\ connectedNodes' = connectedNodes \cup {<<s, "source">>, <<s, "processor">>}
         /\ sourceNodeRef' = s
         /\ processorRef' = s
         /\ intervals' = intervals \cup {s}
         /\ connectionState' = CONNECTED
         /\ starts' = [starts EXCEPT ![s].pc = "done"]
         /\ UNCHANGED <<liveTracks, sourceStream, error>>
    ELSE /\ StartCatch(s, "Failed to start session")
         /\ UNCHANGED <<connectedNodes, sourceNodeRef, processorRef, intervals>>

\* checkConnection's GET has resolved (reachable) or rejected; the input
\* context is created, suspended or running
ProbeDone(s, reachable, suspended, wired) ==
  /\ Settled
  /\ starts[s].pc = "probe"
  /\ inputContextRef' = s
  /\ inputOpen' = inputOpen \cup {s}
  /\ IF suspended
       THEN /\ starts' = [starts EXCEPT ![s].pc = "resume"]
            /\ statusMessage' = "Listening..."
            /\ UNCHANGED <<connectedNodes, sourceNodeRef, processorRef, intervals,
                           connectionState, liveTracks, sourceStream, error>>
       ELSE IF wired
         THEN /\ WirePipeline(s, TRUE)
              /\ statusMessage' = "Listening..."
         ELSE WirePipeline(s, FALSE)
  /\ UNCHANGED <<committedStream, mounted, outputContextRef, audioBufferRef,
                 isProcessingRef, nextStartTimeRef, outputContexts, requests, historyVars>>
  /\ UNCHANGED variantVars

\* ctx.resume() of the input context settles: it rejects if the context has
\* been closed meanwhile
InputResumed(s, wired) ==
  /\ Settled
  /\ starts[s].pc = "resume"
  /\ IF s \in inputOpen /\ wired
       THEN /\ WirePipeline(s, TRUE)
            /\ UNCHANGED statusMessage
       ELSE WirePipeline(s, FALSE)
  /\ UNCHANGED <<committedStream, mounted, inputContextRef, outputContextRef,
                 audioBufferRef, isProcessingRef, nextStartTimeRef, inputOpen,
                 outputContexts, requests, historyVars>>
  /\ UNCHANGED variantVars

\* ------------------------------------ startTranslation of the JSON variant
\* the Start button with the hook that posts to Ollama: the share dialog opens
\* first and the state is left as it is until getDisplayMedia resolves
JsonStartClick(supported) ==
  /\ mounted
  /\ connectionState \notin {CONNECTING, CONNECTED}
  /\ Settled
  /\ FreeStart
  /\ IF supported
       THEN /\ starts' = [starts EXCEPT ![NextStart].pc = "getMedia"]
            /\ UNCHANGED <<liveTracks, sourceStream, error, statusMessage, connectionState>>
       ELSE StartCatch(NextStart, "Browser does not support screen sharing.")
  /\ UNCHANGED <<committedStream, mounted, refVars, inputOpen,
                 connectedNodes, intervals, outputContexts, requests, historyVars>>
  /\ UNCHANGED variantVars

\* getDisplayMedia resolves: Connecting, the error is cleared and the stream is
\* kept; without an audio track the start fails, else the GET of /api/tags
\* starts
JsonGetMediaResolved(s, audio) ==
  /\ Settled
  /\ starts[s].pc = "getMedia"
  /\ IF audio
       THEN /\ sourceStream' = s
            /\ liveTracks' = liveTracks \cup {<<s, "audio">>}
            /\ starts' = [starts EXCEPT ![s] = [pc |-> "probe", stream |-> s]]
            /\ connectionState' = CONNECTING
            /\ error' = ""
            /\ statusMessage' = "Connecting to Ollama..."
       ELSE /\ sourceStream' = 0
            /\ liveTracks' = liveTracks
            /\ starts' = [starts EXCEPT ![s] = [pc |-> "done", stream |-> s]]
            /\ error' = "No audio found! Check 'Also share tab audio' in Chrome dialog."
            /\ statusMessage' = ""
            /\ connectionState' = ERROR
  /\ UNCHANGED <<committedStream, mounted, refVars, inputOpen,
                 connectedNodes, intervals, outputContexts, requests, historyVars>>
  /\ UNCHANGED variantVars

\* the GET of /api/tags has answered with a success status (reachable), or it
\* has answered with another status, failed or been aborted after 2 s: the
\* start throws "Cannot reach Ollama"; else the input context is created,
\* suspended or running, and the pipeline is wired
JsonProbeDone(s, reachable, suspended, wired) ==
  /\ Settled
  /\ starts[s].pc = "probe"
  /\ IF reachable
       THEN /\ inputContextRef' = s
            /\ inputOpen' = inputOpen \cup {s}
            /\ IF suspended
                 THEN /\ starts' = [starts EXCEPT ![s].pc = "resume"]
                      /\ statusMessage' = "Streaming Audio to Model..."
                      /\ UNCHANGED <<connectedNodes, sourceNodeRef, processorRef, intervals,
                                     connectionState, liveTracks, sourceStream, error>>
                 ELSE IF wired
                   THEN /\ WirePipeline(s, TRUE)
                        /\ statusMessage' = "Streaming Audio to Model..."
                   ELSE WirePipeline(s, FALSE)
       ELSE /\ StartCatch(s, "Cannot reach Ollama")
            /\ UNCHANGED <<inputContextRef, inputOpen, connectedNodes, sourceNodeRef,
                           processorRef, intervals>>
  /\ UNCHANGED <<committedStream, mounted, outputContextRef, audioBufferRef,
                 isProcessingRef, nextStartTimeRef, outputContexts, requests, historyVars>>
  /\ UNCHANGED variantVars

\* --------------------------------- startTranslation of the Whisper variant
\* the catch block of the Whisper variant's startTranslation, reached by start
\* s with message m: Error is set and cleanup() follows in the same turn, so
\* Disconnected is what is rendered. The cleanup is the one of the render of
\* the click, which held no stream (WhisperStartClick).
WhisperCatch(s, m) ==
  /\ error' = m
  /\ starts' = [starts EXCEPT ![s].pc = "done"]
  /\ cleanup(0)

\* startTranslation of the Whisper variant from the end of the model stage to
\* the call of getDisplayMedia
WhisperToGetMedia(s, supported) ==
  IF supported
    THEN /\ starts' = [starts EXCEPT ![s].pc = "getMedia"]
         /\ statusMessage' = "Requesting permission to capture screen audio..."
         /\ UNCHANGED <<liveTracks, sourceStream, connectedNodes, processorRef, sourceNodeRef,
                        inputOpen, inputContextRef, outputContexts, outputContextRef>>
    ELSE WhisperCatch(s, "Browser does not support getDisplayMedia")

\* the Start button with the Whisper variant, clicked in a render that holds
\* no stream: the error is cleared and refreshModels starts its GET; the
\* connection state is left as it is
WhisperStartClick ==
  /\ mounted
  /\ connectionState \notin {CONNECTING, CONNECTED}
  /\ Settled
  /\ sourceStream = 0
  /\ FreeStart
  /\ starts' = [starts EXCEPT ![NextStart].pc = "refresh"]
  /\ error' = ""
  /\ statusMessage' = "Starting translation session..."
  /\ UNCHANGED <<connectionState, sourceStream, committedStream, mounted, refVars,
                 platformVars, requests, historyVars, variantVars>>

\* refreshModels returns (having set the error if its GET failed) and the
\* probe starts its GET of /api/tags
WhisperModelsRefreshed(s, ok) ==
  /\ Settled
  /\ starts[s].pc = "refresh"
  /\ starts' = [starts EXCEPT ![s].pc = "probe"]
  /\ error' = IF ok THEN error ELSE "Failed to fetch"
  /\ UNCHANGED <<connectionState, statusMessage, sourceStream, committedStream, mounted,
                 refVars, platformVars, requests, historyVars, variantVars>>

\* the probe has answered with a success status, or not: then the start sets
\* Error and returns. Else initModel starts loading the recognizer
\* (Connecting), or, with the recognizer loaded, Connected is set and
\* getDisplayMedia is called
WhisperProbeDone(s, reachable, supported) ==
  /\ Settled
  /\ starts[s].pc = "probe"
  /\ IF ~reachable
       THEN /\ error' = "Cannot reach Ollama"
            /\ connectionState' = ERROR
            /\ starts' = [starts EXCEPT ![s].pc = "done"]
            /\ UNCHANGED <<statusMessage, sourceStream, refVars, platformVars>>
       ELSE IF ~transcriberRef
         THEN /\ statusMessage' = "Downloading Whisper model (approx 40MB)... this happens once."
              /\ connectionState' = CONNECTING
              /\ starts' = [starts EXCEPT ![s].pc = "initModel"]
              /\ UNCHANGED <<error, sourceStream, refVars, platformVars>>
         ELSE IF supported
           THEN /\ connectionState' = CONNECTED
                /\ WhisperToGetMedia(s, TRUE)
                /\ UNCHANGED <<error, intervals, audioBufferRef, isProcessingRef, nextStartTimeRef>>
           ELSE /\ WhisperCatch(s, "Browser does not support getDisplayMedia")
                /\ UNCHANGED <<intervals, audioBufferRef, isProcessingRef, nextStartTimeRef>>
  /\ UNCHANGED <<committedStream, mounted, requests, historyVars, variantVars>>

\* initModel: the recognizer has loaded (Connected), or loading has failed
\* (Error, with a message); either way initModel returns and startTranslation
\* goes on to getDisplayMedia
WhisperModelLoaded(s, ok, supported) ==
  /\ Settled
  /\ starts[s].pc = "initModel"
  /\ transcriberRef' = (transcriberRef \/ ok)
  /\ IF supported
       THEN /\ connectionState' = IF ok THEN CONNECTED ELSE ERROR
            /\ error' = IF ok THEN error ELSE "Failed to load Whisper model. Check internet connection."
            /\ WhisperToGetMedia(s, TRUE)
       ELSE WhisperCatch(s, "Browser does not support getDisplayMedia")
  /\ UNCHANGED <<committedStream, mounted, intervals, audioBufferRef, isProcessingRef,
                 nextStartTimeRef, requests, historyVars, audioQueueRef, isPlayingRef,
                 players, clips, startedClips, teardownPc, released, utilVars>>

\* getDisplayMedia rejects (the user declined, or another failure)
WhisperGetMediaRejected(s, declined) ==
  /\ Settled
  /\ starts[s].pc = "getMedia"
  /\ WhisperCatch(s, IF declined THEN "Permission denied" ELSE "getDisplayMedia failed")
  /\ UNCHANGED <<committedStream, mounted, intervals, audioBufferRef, isProcessingRef,
                 nextStartTimeRef, requests, historyVars, variantVars>>

\* the wiring of the Whisper variant, from createMediaStreamSource to the
\* flush timer; the connection state is not set
WhisperWire(s) ==
  /\ connectedNodes' = connectedNodes \cup {<<s, "source">>, <<s, "processor">>}
  /\ sourceNodeRef' = s
  /\ processorRef' = s
  /\ intervals' = intervals \cup {s}
  /\ starts' = [starts EXCEPT ![s] = [pc |-> "done", stream |-> s]]

\* getDisplayMedia resolves. Without an audio track the start returns with
\* 'Audio capture cancelled' and Disconnected, the tracks of the stream left
\* as they are. With one, the video track is stopped, the stream is kept, the
\* input context is created (suspended or running) and the pipeline is wired
WhisperGetMediaResolved(s, audio, suspended) ==
  /\ Settled
  /\ starts[s].pc = "getMedia"
  /\ IF ~audio
       THEN /\ liveTracks' = liveTracks \cup {<<s, "video">>}
            /\ statusMessage' = "Audio capture cancelled"
            /\ connectionState' = DISCONNECTED
            /\ starts' = [starts EXCEPT ![s] = [pc |-> "done", stream |-> s]]
            /\ UNCHANGED <<sourceStream, inputContextRef, inputOpen, connectedNodes,
                           sourceNodeRef, processorRef, intervals>>
       ELSE /\ liveTracks' = liveTracks \cup {<<s, "audio">>}
            /\ statusMessage' = "Audio capture started - speak now!"
            /\ sourceStream' = s
            /\ inputContextRef' = s
            /\ inputOpen' = inputOpen \cup {s}
            /\ UNCHANGED connectionState
            /\ IF suspended
                 THEN /\ starts' = [starts EXCEPT ![s] = [pc |-> "resume", stream |-> s]]
                      /\ UNCHANGED <<connectedNodes, sourceNodeRef, processorRef, intervals>>
                 ELSE WhisperWire(s)
  /\ UNCHANGED <<error, committedStream, mounted, outputContextRef, audioBufferRef,
                 isProcessingRef, nextStartTimeRef, outputContexts, requests, historyVars,
                 variantVars>>

\* ctx.resume() of the input context settles: it rejects if the context has
\* been closed meanwhile, and the catch block runs; else the pipeline is wired
WhisperInputResumed(s) ==
  /\ Settled
  /\ starts[s].pc = "resume"
  /\ IF s \in inputOpen
       THEN /\ WhisperWire(s)
            /\ UNCHANGED <<reactVars, inputContextRef, inputOpen, liveTracks, outputContexts,
                           outputContextRef>>
       ELSE /\ WhisperCatch(s, "Failed to start translation session")
            /\ UNCHANGED <<committedStream, mounted, intervals>>
  /\ UNCHANGED <<audioBufferRef, isProcessingRef, nextStartTimeRef, requests, historyVars,
                 variantVars>>

\* ------------------------------------------------- accumulation and dispatch
\* length of downsampleBuffer's result for n input samples (Math.round of n
\* divided by the rate ratio)
DownsampledLength(n, sampleRate, outSampleRate) ==
  IF outSampleRate = sampleRate THEN n ELSE RoundDiv(n * outSampleRate, sampleRate)

\* samples one capture callback appends to the accumulation buffer
BlockLength == DownsampledLength(SCRIPT_BUFFER_SIZE, INPUT_SAMPLE_RATE, TARGET_SAMPLE_RATE)

\* length in samples of a buffer held as a sequence of blocks
BufferLength(buf) == Len(buf) * BlockLength

CeilDiv(a, b) == (a + b - 1) \div b

\* how many of the indices 0, 100, 200, ... fall into the b-th block
SampledIn(b) == CeilDiv(b * BlockLength, SILENCE_STRIDE) - CeilDiv((b - 1) * BlockLength, SILENCE_STRIDE)

RECURSIVE SumAbs(_, _)
SumAbs(seg, b) == IF b > Len(seg) THEN 0 ELSE seg[b].amp * SampledIn(b) + SumAbs(seg, b + 1)

\* the silence gate of processAudioBuffer: avg < 0.01, where avg is the sum of
\* every 100th |sample| divided by length / 100
IsSilent(seg) == SumAbs(seg, 1) * SILENCE_STRIDE < SILENCE_THRESHOLD * BufferLength(seg)

\* processAudioBuffer without its second early return (the minimum window)
CanDispatchNoMinimum(flag, buf) == ~(flag \/ Len(buf) = 0)

\* processAudioBuffer with the callback's threshold as its minimum window
CanDispatchAtTrigger(flag, buf) ==
  /\ ~(flag \/ Len(buf) = 0)
  /\ BufferLength(buf) > TARGET_SAMPLE_RATE * 3

\* the two early returns of processAudioBuffer, negated
CanDispatch(flag, buf) ==
  /\ ~(flag \/ Len(buf) = 0)
  /\ ~(BufferLength(buf) < TARGET_SAMPLE_RATE * 2)

\* the trigger of the capture callback
CallbackTrigger(flag, buf) == ~flag /\ BufferLength(buf) > TARGET_SAMPLE_RATE * 3

\* a capture callback that replaces the buffer by its block
AppendBlockReplaces(buf, blk) == <<blk>>

\* the buffer after a capture callback has appended block blk
AppendBlock(buf, blk) == buf \o <<blk>>

\* processAudioBuffer that hands the buffer on without resetting it
ProcessAudioBufferKeepsBuffer(ps) ==
  IF ~CanDispatch(ps.flag, ps.buf) THEN ps
  ELSE IF IsSilent(ps.buf)
    THEN [buf |-> ps.buf, flag |-> FALSE, taken |-> Append(ps.taken, ps.buf), posted |-> ps.posted]
    ELSE [buf |-> ps.buf, flag |-> TRUE, taken |-> Append(ps.taken, ps.buf),
          posted |-> Append(ps.posted, ps.buf)]

\* processAudioBuffer without the silence gate
ProcessAudioBufferNoSilenceGate(ps) ==
  IF ~CanDispatch(ps.flag, ps.buf) THEN ps
  ELSE [buf |-> <<>>, flag |-> TRUE, taken |-> Append(ps.taken, ps.buf),
        posted |-> Append(ps.posted, ps.buf)]

\* processAudioBuffer up to its first await, on the pipeline state
\* ps = [buf, flag, taken, posted]: taken collects the segments taken from the
\* buffer in this step, posted those handed to sendAudioPayload
ProcessAudioBuffer(ps) ==
  IF ~CanDispatch(ps.flag, ps.buf) THEN ps
  ELSE IF IsSilent(ps.buf)
    THEN [buf |-> <<>>, flag |-> FALSE, taken |-> Append(ps.taken, ps.buf), posted |-> ps.posted]
    ELSE [buf |-> <<>>, flag |-> TRUE, taken |-> Append(ps.taken, ps.buf),
          posted |-> Append(ps.posted, ps.buf)]

\* processor.onaudioprocess that drops the block while a request is in flight
OnAudioProcessDropsWhenBusy(ps, blk) ==
  IF ps.flag THEN ps
  ELSE LET appended == [ps EXCEPT !.buf = ps.buf \o <<blk>>]
       IN IF CallbackTrigger(appended.flag, appended.buf) THEN ProcessAudioBuffer(appended) ELSE appended

\* processor.onaudioprocess for one block
OnAudioProcess(ps, blk) ==
  LET appended == [ps EXCEPT !.buf = AppendBlock(ps.buf, blk)]
  IN IF CallbackTrigger(appended.flag, appended.buf) THEN ProcessAudioBuffer(appended) ELSE appended

\* n consecutive capture callbacks, blocks numbered from id, all of amplitude amp
RECURSIVE Burst(_, _, _, _)
Burst(ps, id, amp, n) ==
  IF n = 0 THEN ps ELSE Burst(OnAudioProcess(ps, [id |-> id, amp |-> amp]), id + 1, amp, n - 1)

PipelineState == [buf |-> audioBufferRef, flag |-> isProcessingRef, taken |-> <<>>, posted |-> <<>>]

\* the effect of a step that ran the pipeline from PipelineState to ps
Dispatched(ps) ==
  /\ Len(ps.posted) <= 1
  /\ audioBufferRef' = ps.buf
  /\ isProcessingRef' = ps.flag
  /\ takenCount' = takenCount + Len(Concat(ps.taken))
  /\ IF ps.posted = <<>>
       THEN UNCHANGED <<requests, statusMessage>>
       ELSE /\ FreeRequest
            /\ requests' = [requests EXCEPT ![NextRequest] =
                              [NoRequest EXCEPT !.kind = "segment", !.pc = "fetch", !.seg = ps.posted[1]]]
            /\ statusMessage' = "Translating..."

\* a burst of capture callbacks of processor p; the blocks are silent unless
\* the source node is connected and its audio track is live
AudioProcess(p, amp) ==
  /\ Settled
  /\ <<p, "processor">> \in connectedNodes
  /\ p \in inputOpen
  /\ nextBlockId <= MaxBursts * BlocksPerBurst
  /\ amp # 0 => <<p, "source">> \in connectedNodes /\ <<p, "audio">> \in liveTracks
  /\ Dispatched(Burst(PipelineState, nextBlockId, amp, BlocksPerBurst))
  /\ nextBlockId' = nextBlockId + BlocksPerBurst
  /\ UNCHANGED <<connectionState, error, sourceStream, committedStream, mounted,
                 inputContextRef, outputContextRef, processorRef, sourceNodeRef, nextStartTimeRef,
                 platformVars, starts, chunkCount, lastScheduled, enqueued>>
  /\ UNCHANGED variantVars

\* the 1 s flush timer of pipeline t fires
FlushTick(t) ==
  /\ Settled
  /\ t \in intervals
  /\ Dispatched(ProcessAudioBuffer(PipelineState))
  /\ UNCHANGED <<connectionState, error, sourceStream, committedStream, mounted,
                 inputContextRef, outputContextRef, processorRef, sourceNodeRef, nextStartTimeRef,
                 platformVars, starts, chunkCount, nextBlockId, lastScheduled, enqueued>>
  /\ UNCHANGED variantVars

\* ------------------------------------------------------------------ playback
\* scheduleAudioChunk that starts every source at the clock
ScheduleStartAtClock(cursor, now) == now

\* scheduleAudioChunk without the reset of a cursor that has fallen behind
ScheduleStartAtCursor(cursor, now) == cursor

\* scheduleAudioChunk: when the new source starts, given the cursor and the
\* context's clock
ScheduleStart(cursor, now) == IF cursor < now THEN now ELSE cursor

\* scheduleAudioChunk that moves the cursor to the end of the source as
\* measured from the clock's origin
AdvanceCursorToDuration(start, dur) == dur

\* scheduleAudioChunk that leaves the cursor at the start of the source
AdvanceCursorNot(start, dur) == start

\* scheduleAudioChunk: the cursor after scheduling at start a buffer of duration dur
AdvanceCursor(start, dur) == start + dur

\* convertInt16ToFloat32: samples made from a chunk of n bytes
SamplesOf(n) == n \div 2

FreeOutput == \E c \in OutputIds : outputContexts[c].state = "none"
NextOutput == CHOOSE c \in OutputIds : outputContexts[c].state = "none" /\ \A d \in OutputIds : d < c => outputContexts[d].state # "none"

\* scheduleAudioChunk from convertInt16ToFloat32 on, for request r, on context c
\* with a chunk of n bytes; createBuffer throws on a length of 0 and the catch
\* drops the chunk
ScheduleBody(r, c, n) ==
  IF SamplesOf(n) = 0
    THEN UNCHANGED <<nextStartTimeRef, lastScheduled>>
    ELSE LET start == ScheduleStart(nextStartTimeRef, outputContexts[c].time)
         IN /\ nextStartTimeRef' = AdvanceCursor(start, SamplesOf(n))
            /\ lastScheduled' = [req |-> r, ctx |-> c, start |-> start, dur |-> SamplesOf(n),
                                 late |-> nextStartTimeRef < outputContexts[c].time]

\* ------------------------------------------------------------ sendAudioPayload
\* a call of sendAudioPayload that has not returned or thrown yet
Outstanding(r) == requests[r].pc \in {"fetch", "read", "resume"}

\* RequestEnds with a processAudioBuffer that has no finally block: the flag
\* is released on the success path only
RequestEndsNoFinally(r, result, supported) ==
  /\ requests' = [requests EXCEPT ![r] =
                    [NoRequest EXCEPT !.kind = requests[r].kind, !.owner = requests[r].owner,
                                      !.pc = "ended"]]
  /\ IF requests[r].kind = "segment"
       THEN /\ statusMessage' = IF result = "ok" THEN "Listening..." ELSE "Error: " \o result
            /\ isProcessingRef' = (result # "ok")
            /\ UNCHANGED <<starts, liveTracks, sourceStream, error, connectionState>>
       ELSE /\ IF result = "ok"
                 THEN ToGetMedia(requests[r].owner, supported, statusMessage)
                 ELSE /\ starts' = [starts EXCEPT ![requests[r].owner].pc = "ttsDelay"]
                      /\ statusMessage' = "TTS Failed, skipping instruction..."
                      /\ UNCHANGED <<liveTracks, sourceStream, error, connectionState>>
            /\ UNCHANGED isProcessingRef

\* RequestEnds with a processAudioBuffer whose catch block ends the session
\* the way the catch block of startTranslation does
RequestEndsFatal(r, result, supported) ==
  /\ requests' = [requests EXCEPT ![r] =
                    [NoRequest EXCEPT !.kind = requests[r].kind, !.owner = requests[r].owner,
                                      !.pc = "ended"]]
  /\ IF requests[r].kind = "segment"
       THEN /\ statusMessage' = IF result = "ok" THEN "Listening..." ELSE "Error: " \o result
            /\ isProcessingRef' = FALSE
            /\ connectionState' = IF result = "ok" THEN connectionState ELSE ERROR
            /\ error' = IF result = "ok" THEN error ELSE result
            /\ UNCHANGED <<starts, liveTracks, sourceStream>>
       ELSE /\ IF result = "ok"
                 THEN ToGetMedia(requests[r].owner, supported, statusMessage)
                 ELSE /\ starts' = [starts EXCEPT ![requests[r].owner].pc = "ttsDelay"]
                      /\ statusMessage' = "TTS Failed, skipping instruction..."
                      /\ UNCHANGED <<liveTracks, sourceStream, error, connectionState>>
            /\ UNCHANGED isProcessingRef

\* sendAudioPayload of request r returns (result = "ok") or throws; its caller
\* goes on: processAudioBuffer to its finally block, generateAndSendInstruction
\* to its end or its catch block, and startTranslation from there
RequestEnds(r, result, supported) ==
  /\ requests' = [requests EXCEPT ![r] =
                    [NoRequest EXCEPT !.kind = requests[r].kind, !.owner = requests[r].owner,
                                      !.pc = "ended"]]
  /\ IF requests[r].kind = "segment"
       THEN /\ statusMessage' = IF result = "ok" THEN "Listening..." ELSE "Error: " \o result
            /\ isProcessingRef' = FALSE
            /\ UNCHANGED <<starts, liveTracks, sourceStream, error, connectionState>>
       ELSE /\ IF result = "ok"
                 THEN ToGetMedia(requests[r].owner, supported, statusMessage)
                 ELSE /\ starts' = [starts EXCEPT ![requests[r].owner].pc = "ttsDelay"]
                      /\ statusMessage' = "TTS Failed, skipping instruction..."
                      /\ UNCHANGED <<liveTracks, sourceStream, error, connectionState>>
            /\ UNCHANGED isProcessingRef

\* the POST settles: a response with a body and a success status ("ok"), a
\* non-success status, a response without body, or no response at all
FetchSettled(r, outcome, supported) ==
  /\ Settled
  /\ requests[r].pc = "fetch"
  /\ IF outcome = "ok"
       THEN /\ requests' = [requests EXCEPT ![r].pc = "read"]
            /\ UNCHANGED <<statusMessage, isProcessingRef, starts, liveTracks, sourceStream,
                           error, connectionState>>
       ELSE RequestEnds(r, outcome, supported)
  /\ UNCHANGED <<committedStream, mounted, inputContextRef, outputContextRef,
                 processorRef, sourceNodeRef, audioBufferRef, nextStartTimeRef, inputOpen,
                 connectedNodes, intervals, outputContexts, historyVars>>
  /\ UNCHANGED variantVars

\* reader.read() reports the end of the stream, or fails
ReadEnded(r, ok, supported) ==
  /\ Settled
  /\ requests[r].pc = "read"
  /\ RequestEnds(r, IF ok THEN "ok" ELSE "Stream read failed", supported)
  /\ UNCHANGED <<committedStream, mounted, inputContextRef, outputContextRef,
                 processorRef, sourceNodeRef, audioBufferRef, nextStartTimeRef, inputOpen,
                 connectedNodes, intervals, outputContexts, historyVars>>
  /\ UNCHANGED variantVars

\* reader.read() delivers a chunk of n bytes and scheduleAudioChunk runs up to
\* its await of resume (a context it creates is suspended or running), or to
\* its end
ReadChunk(r, n, suspended) ==
  /\ Settled
  /\ requests[r].pc = "read"
  /\ chunkCount < MaxChunks
  /\ chunkCount' = chunkCount + 1
  /\ outputContextRef = 0 => FreeOutput
  /\ LET c == IF outputContextRef = 0 THEN NextOutput ELSE outputContextRef
         created == IF outputContextRef = 0
                      THEN [outputContexts EXCEPT ![c].state = IF suspended THEN "suspended" ELSE "running"]
                      ELSE outputContexts
     IN /\ outputContextRef' = c
        /\ outputContexts' = created
        /\ IF created[c].state = "suspended"
             THEN /\ requests' = [requests EXCEPT ![r].pc = "resume", ![r].ctx = c, ![r].bytes = n]
                  /\ UNCHANGED <<nextStartTimeRef, lastScheduled>>
             ELSE /\ UNCHANGED requests
                  /\ ScheduleBody(r, c, n)
  /\ UNCHANGED <<reactVars, inputContextRef, processorRef, sourceNodeRef, audioBufferRef,
                 isProcessingRef, liveTracks, inputOpen, connectedNodes, intervals, starts,
                 nextBlockId, takenCount, enqueued>>
  /\ UNCHANGED variantVars

\* ctx.resume() of the output context settles for the chunk request r waits
\* with: it rejects if the context has been closed meanwhile (the catch drops
\* the chunk), else the context runs and the chunk is scheduled
OutputResumed(r) ==
  /\ Settled
  /\ requests[r].pc = "resume"
  /\ LET c == requests[r].ctx
     IN IF outputContexts[c].state = "closed"
          THEN UNCHANGED <<outputContexts, nextStartTimeRef, lastScheduled>>
          ELSE /\ outputContexts' = [outputContexts EXCEPT ![c].state = "running"]
               /\ ScheduleBody(r, c, requests[r].bytes)
  /\ requests' = [requests EXCEPT ![r].pc = "read", ![r].ctx = 0, ![r].bytes = 0]
  /\ UNCHANGED <<reactVars, inputContextRef, outputContextRef, processorRef, sourceNodeRef,
                 audioBufferRef, isProcessingRef, liveTracks, inputOpen, connectedNodes,
                 intervals, starts, chunkCount, nextBlockId, takenCount, enqueued>>
  /\ UNCHANGED variantVars

\* the clock of a running output context advances
ClockAdvance(c) ==
  /\ Settled
  /\ outputContexts[c].state = "running"
  /\ outputContexts[c].time < MaxClock
  /\ outputContexts' = [outputContexts EXCEPT ![c].time = @ + 1]
  /\ UNCHANGED <<reactVars, refVars, liveTracks, inputOpen, connectedNodes, intervals,
                 taskVars, historyVars>>
  /\ UNCHANGED variantVars

\* the scheduling scenario: reader.read() delivers the next of SegmentCount
\* chunks of Second samples each, and scheduleAudioChunk runs on a running
\* context (created if there is none)
SegmentBytes == 2 * Second

ReadSegment(r) ==
  /\ Settled
  /\ requests[r].pc = "read"
  /\ Len(enqueued) < SegmentCount
  /\ outputContextRef = 0 => FreeOutput
  /\ LET c == IF outputContextRef = 0 THEN NextOutput ELSE outputContextRef
         created == IF outputContextRef = 0
                      THEN [outputContexts EXCEPT ![c].state = "running"]
                      ELSE outputContexts
     IN /\ created[c].state = "running"
        /\ outputContextRef' = c
        /\ outputContexts' = created
        /\ ScheduleBody(r, c, SegmentBytes)
        /\ enqueued' = Append(enqueued, [start |-> lastScheduled'.start, dur |-> lastScheduled'.dur,
                                         now |-> created[c].time])
  /\ UNCHANGED <<reactVars, inputContextRef, processorRef, sourceNodeRef, audioBufferRef,
                 isProcessingRef, liveTracks, inputOpen, connectedNodes, intervals, taskVars,
                 chunkCount, nextBlockId, takenCount>>
  /\ UNCHANGED variantVars

\* a chunk of any size read before the first of the equal segments
LeadIn(r, n) == enqueued = <<>> /\ ReadChunk(r, n, FALSE)

\* the clock of a running output context advances, in the scheduling scenario
\* as far as the segments reach
ScheduleClock == MaxClock + SegmentCount * Second

Tick(c) ==
  /\ Settled
  /\ outputContexts[c].state = "running"
  /\ outputContexts[c].time < ScheduleClock
  /\ outputContexts' = [outputContexts EXCEPT ![c].time = @ + 1]
  /\ UNCHANGED <<reactVars, refVars, liveTracks, inputOpen, connectedNodes, intervals,
                 taskVars, historyVars>>
  /\ UNCHANGED variantVars

\* ---------------------------------------- capture of the Whisper variant
\* the rate the Whisper variant downsamples to
WHISPER_SAMPLE_RATE == 16000

\* samples one capture callback of the Whisper variant appends
WhisperBlockLength == DownsampledLength(SCRIPT_BUFFER_SIZE, INPUT_SAMPLE_RATE, WHISPER_SAMPLE_RATE)

WhisperLength(buf) == Len(buf) * WhisperBlockLength

\* the capture blocks that 3 seconds of audio at the input rate fill
FeedBlocks == (3 * INPUT_SAMPLE_RATE) \div SCRIPT_BUFFER_SIZE

\* processAudioBuffer of the Whisper variant up to its first await: it needs
\* the recognizer, a clear flag and at least 2.0 s of audio
WhisperProcessAudioBuffer(ps) ==
  IF ~transcriberRef \/ ps.flag \/ Len(ps.buf) = 0 THEN ps
  ELSE IF WhisperLength(ps.buf) < WHISPER_SAMPLE_RATE * 2 THEN ps
  ELSE [buf |-> <<>>, flag |-> TRUE, taken |-> Append(ps.taken, ps.buf),
        posted |-> Append(ps.posted, ps.buf)]

\* processor.onaudioprocess of the Whisper variant for one block
WhisperOnAudioProcess(ps, blk) ==
  LET appended == [ps EXCEPT !.buf = AppendBlock(ps.buf, blk)]
  IN IF ~appended.flag /\ WhisperLength(appended.buf) > WHISPER_SAMPLE_RATE * 3
       THEN WhisperProcessAudioBuffer(appended)
       ELSE appended

\* the callbacks of n live processors for the block numbered id (the Whisper
\* variant has no silence gate: the amplitude plays no part)
RECURSIVE WhisperCallbacks(_, _, _)
WhisperCallbacks(ps, id, n) ==
  IF n = 0 THEN ps
  ELSE WhisperCallbacks(WhisperOnAudioProcess(ps, [id |-> id, amp |-> LOUD]), id, n - 1)

\* the flush callbacks of n live timers
RECURSIVE WhisperTicks(_, _)
WhisperTicks(ps, n) == IF n = 0 THEN ps ELSE WhisperTicks(WhisperProcessAudioBuffer(ps), n - 1)

\* the effect of a step that ran the Whisper pipeline from PipelineState to
\* ps: a segment handed to the recognizer is a request awaiting transcription
WhisperDispatched(ps) ==
  /\ Len(ps.posted) <= 1
  /\ audioBufferRef' = ps.buf
  /\ isProcessingRef' = ps.flag
  /\ takenCount' = takenCount + Len(Concat(ps.taken))
  /\ IF ps.posted = <<>>
       THEN UNCHANGED requests
       ELSE /\ FreeRequest
            /\ requests' = [requests EXCEPT ![NextRequest] =
                              [NoRequest EXCEPT !.kind = "segment", !.pc = "transcribe",
                                                !.seg = ps.posted[1]]]

\* the processors whose capture callback still fires
LiveProcessors == {p \in StartIds : <<p, "processor">> \in connectedNodes /\ p \in inputOpen}

\* the shared tab plays on for the time of one capture block while its audio
\* is captured: every live processor gets its callback
WhisperFeed ==
  /\ Settled
  /\ \E s \in StartIds : <<s, "audio">> \in liveTracks
  /\ nextBlockId <= FeedBlocks
  /\ nextBlockId' = nextBlockId + 1
  /\ WhisperDispatched(WhisperCallbacks(PipelineState, nextBlockId, Cardinality(LiveProcessors)))
  /\ UNCHANGED <<reactVars, inputContextRef, outputContextRef, processorRef, sourceNodeRef,
                 nextStartTimeRef, platformVars, starts, chunkCount, lastScheduled, enqueued>>
  /\ UNCHANGED variantVars

\* one second passes: every live flush timer fires
WhisperSecond ==
  /\ Settled
  /\ \E s \in StartIds : <<s, "audio">> \in liveTracks
  /\ WhisperDispatched(WhisperTicks(PipelineState, Cardinality(intervals)))
  /\ UNCHANGED <<reactVars, inputContextRef, outputContextRef, processorRef, sourceNodeRef,
                 nextStartTimeRef, platformVars, starts, chunkCount, nextBlockId, lastScheduled,
                 enqueued>>
  /\ UNCHANGED variantVars

\* ------------------------------------------- playback of the JSON variant
\* the playback state that playNextInQueue reads and writes: the queue, the
\* playing flag, the calls waiting in `await resume()`, the clips, and the
\* output context
QueueState ==
  [queue |-> audioQueueRef, playing |-> isPlayingRef, waiting |-> players, clips |-> clips,
   ref |-> outputContextRef, ctxs |-> outputContexts]

\* playNextInQueue from `isPlayingRef.current = true` to its await of
\* decodeAudioData, or to its return when shift() yields nothing
TakeNext(q) ==
  IF q.queue = <<>>
    THEN [q EXCEPT !.playing = FALSE]
    ELSE [q EXCEPT !.playing = TRUE, !.queue = Tail(q.queue), !.clips[Head(q.queue)] = "decoding"]

\* playNextInQueue up to its first await; a context it creates is suspended
\* or running
PlayNextInQueue(q, suspended) ==
  IF q.playing \/ q.queue = <<>>
    THEN q
    ELSE LET c == IF q.ref = 0 THEN NextOutput ELSE q.ref
             created == IF q.ref = 0
                          THEN [q EXCEPT !.ref = c,
                                         !.ctxs[c].state = IF suspended THEN "suspended" ELSE "running"]
                          ELSE q
         IN IF created.ctxs[c].state = "suspended"
              THEN [created EXCEPT !.waiting = @ + 1]
              ELSE TakeNext(created)

\* the continuations of n calls of playNextInQueue whose resume() has resolved
RECURSIVE Resumed(_, _)
Resumed(q, n) == IF n = 0 THEN q ELSE Resumed(TakeNext([q EXCEPT !.waiting = @ - 1]), n - 1)

\* the catch block of playNextInQueue that leaves the flag and the queue alone
DecodeFailedStalls(q) == q

\* the catch block of playNextInQueue
DecodeFailed(q) == PlayNextInQueue([q EXCEPT !.playing = FALSE], FALSE)

\* source.onended
OnEnded(q) == PlayNextInQueue([q EXCEPT !.playing = FALSE], FALSE)

SetQueueState(q) ==
  /\ audioQueueRef' = q.queue
  /\ isPlayingRef' = q.playing
  /\ players' = q.waiting
  /\ clips' = q.clips
  /\ outputContextRef' = q.ref
  /\ outputContexts' = q.ctxs

\* what the playback of the JSON variant leaves alone
QueueFrame ==
  UNCHANGED <<reactVars, inputContextRef, processorRef, sourceNodeRef, audioBufferRef,
              nextStartTimeRef, liveTracks, inputOpen, connectedNodes, intervals, taskVars,
              historyVars, transcriberRef, teardownPc, released, utilVars>>

NextClip == CHOOSE c \in ClipIds : clips[c] = "none" /\ \A d \in ClipIds : d < c => clips[d] # "none"

\* queueAudioResponse with the response of a request: base64 that does not
\* decode throws and nothing is queued, else the clip is pushed and
\* playNextInQueue runs up to its first await
QueueAudioResponse(valid, suspended) ==
  /\ \E c \in ClipIds : clips[c] = "none"
  /\ outputContextRef = 0 => FreeOutput
  /\ IF valid
       THEN SetQueueState(PlayNextInQueue([QueueState EXCEPT !.queue = Append(@, NextClip),
                                                            !.clips[NextClip] = "queued"], suspended))
       ELSE SetQueueState([QueueState EXCEPT !.clips[NextClip] = "invalid"])
  /\ UNCHANGED <<isProcessingRef, startedClips>>
  /\ QueueFrame

\* resume() of the output context settles for every call of playNextInQueue
\* that waits for it: the calls continue one after the other in the order
\* they began to wait; if the context was closed meanwhile resume() rejects
\* and the calls end there
JsonOutputResumed ==
  /\ players > 0
  /\ IF outputContexts[outputContextRef].state = "closed"
       THEN /\ players' = 0
            /\ UNCHANGED <<audioQueueRef, isPlayingRef, clips, outputContextRef, outputContexts>>
       ELSE SetQueueState(Resumed([QueueState EXCEPT !.ctxs[outputContextRef].state = "running"], players))
  /\ UNCHANGED <<isProcessingRef, startedClips>>
  /\ QueueFrame

\* decodeAudioData settles for clip c: the source is created and started, or
\* the catch block drops the clip
DecodeDone(c, ok) ==
  /\ clips[c] = "decoding"
  /\ IF ok
       THEN /\ clips' = [clips EXCEPT ![c] = "playing"]
            /\ startedClips' = Append(startedClips, c)
            /\ UNCHANGED <<audioQueueRef, isPlayingRef, players, outputContextRef, outputContexts>>
       ELSE /\ SetQueueState(DecodeFailed([QueueState EXCEPT !.clips[c] = "dropped"]))
            /\ UNCHANGED startedClips
  /\ UNCHANGED isProcessingRef
  /\ QueueFrame

\* clip c has played to its end on a running context: onended
ClipEnded(c) ==
  /\ clips[c] = "playing"
  /\ outputContexts[outputContextRef].state = "running"
  /\ SetQueueState(OnEnded([QueueState EXCEPT !.clips[c] = "ended"]))
  /\ UNCHANGED <<isProcessingRef, startedClips>>
  /\ QueueFrame

\* stopTranslation of the JSON variant: the flush timer is cleared and
\* cleanup runs; cleanup closes over the sourceStream of the first render
\* (null), sets no state, and closes the output context without clearing
\* outputContextRef
JsonStopCall ==
  /\ mounted
  /\ intervals' = IF processorRef # 0 THEN intervals \ {processorRef} ELSE intervals
  /\ connectedNodes' = connectedNodes \ {<<processorRef, "processor">>, <<sourceNodeRef, "source">>}
  /\ processorRef' = 0
  /\ sourceNodeRef' = 0
  /\ inputOpen' = inputOpen \ {inputContextRef}
  /\ inputContextRef' = IF inputContextRef \in inputOpen THEN 0 ELSE inputContextRef
  /\ outputContexts' = IF outputContextRef # 0 /\ outputContexts[outputContextRef].state # "closed"
                          THEN [outputContexts EXCEPT ![outputContextRef] = ClosedContext]
                          ELSE outputContexts
  /\ UNCHANGED <<reactVars, outputContextRef, audioBufferRef, isProcessingRef, nextStartTimeRef,
                 liveTracks, taskVars, historyVars, variantVars>>

\* ---------------------------------------------------------- audio utilities
\* a sample: a rational number n/d in lowest terms; 0/0 is NaN
RECURSIVE GCD(_, _)
GCD(a, b) == IF b = 0 THEN a ELSE GCD(b, a % b)

Abs(a) == IF a < 0 THEN -a ELSE a

Ratio(n, d) ==
  IF d = 0 THEN [n |-> 0, d |-> 0]
  ELSE LET g == GCD(Abs(n), d) IN IF g = 0 THEN [n |-> 0, d |-> 1] ELSE [n |-> n \div g, d |-> d \div g]

SampleValues == {Ratio(-1, 1), Ratio(0, 1), Ratio(1, 1)}

RECURSIVE SeqsUpTo(_, _)
SeqsUpTo(S, n) ==
  IF n = 0 THEN {<<>>}
  ELSE LET shorter == SeqsUpTo(S, n - 1)
       IN shorter \cup {Append(q, v) : q \in {r \in shorter : Len(r) = n - 1}, v \in S}

RECURSIVE IsPowerOfTwo(_)
IsPowerOfTwo(m) == m = 1 \/ (m % 2 = 0 /\ IsPowerOfTwo(m \div 2))

\* sampleRate / outSampleRate is computed in double precision: it is exact
\* when the reduced denominator is a power of two
ExactRatio(sampleRate, outSampleRate) == IsPowerOfTwo(outSampleRate \div GCD(sampleRate, outSampleRate))

\* downsampleBuffer with the two rates of the ratio exchanged
DownsampledLengthsInverted(n, sampleRate, outSampleRate) ==
  {RoundDiv(n * sampleRate, outSampleRate)}

\* the values Math.round(n / sampleRateRatio) can take: the rounded quotient,
\* and when the quotient lies halfway between two integers and the ratio is
\* not exact, the integer below as well (35 samples from rate 14 to rate 3
\* give 7, the exact quotient being 7.5)
DownsampledLengths(n, sampleRate, outSampleRate) ==
  LET up == RoundDiv(n * outSampleRate, sampleRate)
      tie == (2 * n * outSampleRate) % (2 * sampleRate) = sampleRate
  IN IF tie /\ ~ExactRatio(sampleRate, outSampleRate) THEN {up - 1, up} ELSE {up}

\* accum / count over buffer[from .. to-1] (indices from 0)
RECURSIVE Accum(_, _, _)
Accum(buffer, from, to) ==
  IF from >= to THEN 0 ELSE buffer[from + 1].n + Accum(buffer, from + 1, to)

Min(a, b) == IF a < b THEN a ELSE b

\* the loop of downsampleBuffer for a result of newLength samples: sample k
\* is the mean of the input from Math.round(k * ratio) to
\* Math.round((k + 1) * ratio), as far as the input reaches
Averaged(buffer, sampleRate, outSampleRate, newLength) ==
  [k \in 1..newLength |->
     LET from == IF k = 1 THEN 0 ELSE RoundDiv((k - 1) * sampleRate, outSampleRate)
         to == Min(RoundDiv(k * sampleRate, outSampleRate), Len(buffer))
     IN IF from >= to THEN Ratio(0, 0) ELSE Ratio(Accum(buffer, from, to), to - from)]

\* downsampleBuffer that hands back a zeroed buffer when the rates are equal
DownsampleBufferZeroed(buffer, sampleRate, outSampleRate) ==
  {[done |-> TRUE, threw |-> FALSE, value |-> [k \in 1..Len(buffer) |-> Ratio(0, 1)]]}

\* downsampleBuffer with equal rates
DownsampleBufferSameRate(buffer, sampleRate, outSampleRate) ==
  {[done |-> TRUE, threw |-> FALSE, value |-> buffer]}

\* the results downsampleBuffer can return
DownsampleBuffer(buffer, sampleRate, outSampleRate) ==
  IF outSampleRate = sampleRate THEN DownsampleBufferSameRate(buffer, sampleRate, outSampleRate)
  ELSE IF outSampleRate > sampleRate THEN {[done |-> TRUE, threw |-> TRUE, value |-> <<>>]}
  ELSE {[done |-> TRUE, threw |-> FALSE, value |-> Averaged(buffer, sampleRate, outSampleRate, l)] :
          l \in DownsampledLengths(Len(buffer), sampleRate, outSampleRate)}

\* what a call of a utility function leaves alone
UtilFrame == UNCHANGED <<reactVars, refVars, platformVars, taskVars, historyVars, transcriberRef,
                         audioQueueRef, isPlayingRef, players, clips, startedClips, teardownPc,
                         released, utilCall>>

ResampleCalls ==
  {[fn |-> "downsampleBuffer", buffer |-> b, sampleRate |-> i, outSampleRate |-> o] :
     b \in SeqsUpTo(SampleValues, MaxSamples), i \in 1..MaxRate, o \in 1..MaxRate}

\* downsampleBuffer returns or throws
Resample ==
  /\ utilCall.fn = "downsampleBuffer"
  /\ ~utilResult.done
  /\ utilResult' \in DownsampleBuffer(utilCall.buffer, utilCall.sampleRate, utilCall.outSampleRate)
  /\ UtilFrame

\* ------------------------------------------------- encodeWAV and its decoding
U16(v) == <<v % 256, (v \div 256) % 256>>
U32(v) == <<v % 256, (v \div 256) % 256, (v \div 65536) % 256, (v \div 16777216) % 256>>

\* the char codes of "RIFF", "WAVE", "fmt " and "data"
RIFF == <<82, 73, 70, 70>>
WAVE == <<87, 65, 86, 69>>
FMT == <<102, 109, 116, 32>>
DATA == <<100, 97, 116, 97>>

\* the 44 bytes encodeWAV writes before count samples
WavHeader(count, sampleRate) ==
  RIFF \o U32(36 + count * 2) \o WAVE \o FMT \o U32(16) \o U16(1) \o U16(1) \o U32(sampleRate)
    \o U32(sampleRate * 2) \o U16(2) \o U16(16) \o DATA \o U32(count * 2)

\* a / b truncated towards zero (what setInt16 does to a fraction)
Trunc(a, b) == IF a < 0 THEN -((-a) \div b) ELSE a \div b

\* encodeWAV's 16-bit value of sample x in [-1, 1]: x * 0x8000 below zero,
\* x * 0x7FFF else
ToInt16(x) == IF x.n < 0 THEN Trunc(x.n * 32768, x.d) ELSE Trunc(x.n * 32767, x.d)

\* view.setInt16(offset, v, true)
Int16Bytes(v) == U16(IF v < 0 THEN v + 65536 ELSE v)

RECURSIVE SampleBytes(_)
SampleBytes(samples) ==
  IF samples = <<>> THEN <<>> ELSE Int16Bytes(ToInt16(Head(samples))) \o SampleBytes(Tail(samples))

EncodeWAV(samples, sampleRate) == WavHeader(Len(samples), sampleRate) \o SampleBytes(samples)

\* the Int16 made of two bytes, low byte first
FromBytes(lo, hi) == LET u == lo + 256 * hi IN IF u >= 32768 THEN u - 65536 ELSE u

\* convertInt16ToFloat32: byteLength / 2 samples (a last odd byte is left
\* out), each int16 / 32768
ConvertInt16ToFloat32(bytes) ==
  [i \in 1..(Len(bytes) \div 2) |-> Ratio(FromBytes(bytes[2 * i - 1], bytes[2 * i]), 32768)]

\* ctx.decodeAudioData of a 16-bit mono PCM WAV file at the rate of the
\* context: the samples after the 44-byte header
NativeDecode(data) == ConvertInt16ToFloat32(SubSeq(data, 45, Len(data)))

\* decodeAudioData of the utilities: the native decoder for data longer than
\* 44 bytes that begin with "RIFF", unless it rejects (nativeOk); else, and
\* for everything else, the bytes taken as raw 16-bit PCM
DecodeAudioData(data, nativeOk) ==
  IF Len(data) > 44 /\ SubSeq(data, 1, 4) = RIFF /\ nativeOk
    THEN NativeDecode(data)
    ELSE ConvertInt16ToFloat32(data)

\* the samples handed to encodeWAV
WavSampleValues == {Ratio(-1, 1), Ratio(-1, 3), Ratio(0, 1), Ratio(1, 2), Ratio(2, 3), Ratio(1, 1)}

WavCalls ==
  {[fn |-> "encodeWAV", samples |-> x, sampleRate |-> TARGET_SAMPLE_RATE, data |-> <<>>] :
     x \in SeqsUpTo(WavSampleValues, MaxSamples)}

\* encodeWAV returns and its result is handed to decodeAudioData
EncodeWav ==
  /\ utilCall.fn = "encodeWAV"
  /\ utilCall' = [utilCall EXCEPT !.fn = "decodeAudioData",
                                  !.data = EncodeWAV(utilCall.samples, utilCall.sampleRate)]
  /\ UNCHANGED <<reactVars, refVars, platformVars, taskVars, historyVars, transcriberRef,
                 audioQueueRef, isPlayingRef, players, clips, startedClips, teardownPc,
                 released, utilResult>>

\* decodeAudioData resolves
DecodeWav(nativeOk) ==
  /\ utilCall.fn = "decodeAudioData"
  /\ ~utilResult.done
  /\ utilResult' = [done |-> TRUE, threw |-> FALSE, value |-> DecodeAudioData(utilCall.data, nativeOk)]
  /\ UtilFrame

\* ------------------------------------- a streamed response, chunk by chunk
\* the most bytes in a response body
MaxBytes == 4

\* the byte values of the response bodies
ByteValues == {0, 1, 255}

\* the read loop of sendAudioPayload on a response body of the given bytes:
\* read counts the bytes delivered so far
StreamCalls ==
  {[fn |-> "sendAudioPayload", body |-> b, read |-> 0] : b \in SeqsUpTo(ByteValues, MaxBytes)}

\* the samples scheduleAudioChunk puts into its buffer for one chunk (a
\* Uint8Array at offset 0 of its own ArrayBuffer): none if createBuffer
\* throws on a length of 0
ScheduledSamples(chunk) == ConvertInt16ToFloat32(chunk)

\* reader.read() delivers the next n bytes of the body and scheduleAudioChunk
\* schedules their samples after those scheduled before
StreamChunk(n) ==
  /\ utilCall.fn = "sendAudioPayload"
  /\ ~utilResult.done
  /\ utilCall.read + n <= Len(utilCall.body)
  /\ utilCall' = [utilCall EXCEPT !.read = @ + n]
  /\ utilResult' = [utilResult EXCEPT !.value =
                      @ \o ScheduledSamples(SubSeq(utilCall.body, utilCall.read + 1, utilCall.read + n))]
  /\ UNCHANGED <<reactVars, refVars, platformVars, taskVars, historyVars, transcriberRef,
                 audioQueueRef, isPlayingRef, players, clips, startedClips, teardownPc, released>>

\* reader.read() reports the end of the body: the loop is left
StreamDone ==
  /\ utilCall.fn = "sendAudioPayload"
  /\ ~utilResult.done
  /\ utilCall.read = Len(utilCall.body)
  /\ utilResult' = [utilResult EXCEPT !.done = TRUE]
  /\ UtilFrame

\* ---------------------------------------------------------------- the system
FetchOutcomes == {"ok", "Server Error: 500", "No response body", "Failed to fetch"}

\* startTranslation, stopTranslation and the requests
Lifecycle ==
  \/ \E i \in BOOLEAN, b \in BOOLEAN : StartClick(i, b)
  \/ StopClick
  \/ Commit
  \/ Unmount
  \/ \E s \in StartIds, ok \in BOOLEAN : TtsLoaded(s, ok)
  \/ \E s \in StartIds, ok \in BOOLEAN : TtsSynthesized(s, ok)
  \/ \E s \in StartIds, b \in BOOLEAN : TtsDelayDone(s, b)
  \/ \E s \in StartIds, d \in BOOLEAN : GetMediaRejected(s, d)
  \/ \E s \in StartIds, a \in BOOLEAN : GetMediaResolved(s, a)
  \/ \E s \in StartIds, ok \in BOOLEAN, su \in BOOLEAN, w \in BOOLEAN : ProbeDone(s, ok, su, w)
  \/ \E s \in StartIds, w \in BOOLEAN : InputResumed(s, w)
  \/ \E r \in RequestIds, o \in FetchOutcomes, b \in BOOLEAN : FetchSettled(r, o, b)
  \/ \E r \in RequestIds, ok \in BOOLEAN, b \in BOOLEAN : ReadEnded(r, ok, b)

\* the capture source and the flush timer
Capture ==
  \/ \E p \in StartIds, amp \in {0, LOUD} : AudioProcess(p, amp)
  \/ \E t \in StartIds : FlushTick(t)

\* the audio of the responses
Playback ==
  \/ \E r \in RequestIds, n \in 1..MaxChunkBytes, su \in BOOLEAN : ReadChunk(r, n, su)
  \/ \E r \in RequestIds : OutputResumed(r)
  \/ \E c \in OutputIds : ClockAdvance(c)

Next == Lifecycle \/ Capture \/ Playback

Spec == Init /\ [][Next]_vars

\* the hook with a service whose response streams carry no audio
NextCapture == Lifecycle \/ Capture

SpecCapture == Init /\ [][NextCapture]_vars

\* the hook with a capture source that delivers no block: the only requests
\* are the instruction requests of the starts
NextPlayback == Lifecycle \/ Playback

SpecPlayback == Init /\ [][NextPlayback]_vars

\* the hook in an environment where every step of a start succeeds (no
\* instruction, a shared tab with audio, a running input context): capture,
\* requests and playback end to end, over a session, its stop and its restart
LifecycleOk ==
  \/ StartClick(FALSE, TRUE)
  \/ StopClick
  \/ Commit
  \/ \E s \in StartIds : GetMediaResolved(s, TRUE)
  \/ \E s \in StartIds, ok \in BOOLEAN : ProbeDone(s, ok, FALSE, TRUE)
  \/ \E r \in RequestIds, o \in FetchOutcomes : FetchSettled(r, o, TRUE)
  \/ \E r \in RequestIds, ok \in BOOLEAN : ReadEnded(r, ok, TRUE)

NextStream == LifecycleOk \/ Capture \/ Playback

SpecStream == Init /\ [][NextStream]_vars

\* the hook with a caller that may stop it in any state
NextTeardown == Lifecycle \/ Playback \/ StopCall

SpecTeardown == Init /\ [][NextTeardown]_vars

\* the starts and stops of the JSON variant of the hook
NextJson ==
  \/ \E b \in BOOLEAN : JsonStartClick(b)
  \/ StopClick
  \/ StopCall
  \/ Commit
  \/ Unmount
  \/ \E s \in StartIds, d \in BOOLEAN : GetMediaRejected(s, d)
  \/ \E s \in StartIds, a \in BOOLEAN : JsonGetMediaResolved(s, a)
  \/ \E s \in StartIds, ok \in BOOLEAN, su \in BOOLEAN, w \in BOOLEAN : JsonProbeDone(s, ok, su, w)
  \/ \E s \in StartIds, w \in BOOLEAN : InputResumed(s, w)

SpecJson == Init /\ [][NextJson]_vars

\* the starts and stops of the Whisper variant of the hook
NextWhisper ==
  \/ WhisperStartClick
  \/ StopClick
  \/ StopCall
  \/ Commit
  \/ Unmount
  \/ \E s \in StartIds, ok \in BOOLEAN : WhisperModelsRefreshed(s, ok)
  \/ \E s \in StartIds, ok \in BOOLEAN, b \in BOOLEAN : WhisperProbeDone(s, ok, b)
  \/ \E s \in StartIds, ok \in BOOLEAN, b \in BOOLEAN : WhisperModelLoaded(s, ok, b)
  \/ \E s \in StartIds, d \in BOOLEAN : WhisperGetMediaRejected(s, d)
  \/ \E s \in StartIds, a \in BOOLEAN, su \in BOOLEAN : WhisperGetMediaResolved(s, a, su)
  \/ \E s \in StartIds : WhisperInputResumed(s)

SpecWhisper == Init /\ [][NextWhisper]_vars

\* a handler runs only when no call of stopTranslation is in progress
BetweenHandlers(A) == teardownPc = 0 /\ A

\* sessions whose starts succeed up to the wiring, with capture, a request and
\* playback, stopped in any state by a stopTranslation that is followed
\* statement by statement
NextTeardownSteps ==
  \/ BetweenHandlers(StartClick(FALSE, TRUE))
  \/ \E s \in StartIds : BetweenHandlers(GetMediaResolved(s, TRUE))
  \/ BetweenHandlers(Commit)
  \/ \E s \in StartIds, w \in BOOLEAN : BetweenHandlers(ProbeDone(s, TRUE, FALSE, w))
  \/ \E p \in StartIds : BetweenHandlers(AudioProcess(p, LOUD))
  \/ \E r \in RequestIds : BetweenHandlers(FetchSettled(r, "ok", TRUE))
  \/ \E r \in RequestIds, n \in 1..MaxChunkBytes : BetweenHandlers(ReadChunk(r, n, FALSE))
  \/ TeardownBegin
  \/ TeardownStep

SpecTeardownSteps == Init /\ [][NextTeardownSteps]_vars

\* the Whisper variant in an environment where every step of a start
\* succeeds and nobody stops the session, with the shared tab playing for
\* the time of FeedBlocks capture blocks
NextWhisperFeed ==
  \/ WhisperStartClick
  \/ Commit
  \/ \E s \in StartIds : WhisperModelsRefreshed(s, TRUE)
  \/ \E s \in StartIds : WhisperProbeDone(s, TRUE, TRUE)
  \/ \E s \in StartIds : WhisperModelLoaded(s, TRUE, TRUE)
  \/ \E s \in StartIds, su \in BOOLEAN : WhisperGetMediaResolved(s, TRUE, su)
  \/ \E s \in StartIds : WhisperInputResumed(s)
  \/ WhisperFeed
  \/ WhisperSecond

SpecWhisperFeed == Init /\ [][NextWhisperFeed]_vars

\* downsampleBuffer called with any buffer of up to MaxSamples samples and any
\* two rates up to MaxRate
InitResample ==
  /\ InitSession
  /\ utilCall \in ResampleCalls
  /\ utilResult = NoResult

NextResample == Resample

SpecResample == InitResample /\ [][NextResample]_vars

\* encodeWAV called with any sequence of up to MaxSamples samples in [-1, 1],
\* and its result decoded
InitWav ==
  /\ InitSession
  /\ utilCall \in WavCalls
  /\ utilResult = NoResult

NextWav ==
  \/ EncodeWav
  \/ \E ok \in BOOLEAN : DecodeWav(ok)

SpecWav == InitWav /\ [][NextWav]_vars

\* a response body of up to MaxBytes bytes read in chunks of any lengths
InitStream ==
  /\ InitSession
  /\ utilCall \in StreamCalls
  /\ utilResult = NoResult

NextBody ==
  \/ \E n \in 1..MaxBytes : StreamChunk(n)
  \/ StreamDone

SpecBody == InitStream /\ [][NextBody]_vars

\* the queued playback of the JSON variant: responses arrive, the output
\* context resumes, clips are decoded and end, and the session may be stopped
NextQueue ==
  \/ \E v \in BOOLEAN, su \in BOOLEAN : QueueAudioResponse(v, su)
  \/ JsonOutputResumed
  \/ \E c \in ClipIds, ok \in BOOLEAN : DecodeDone(c, ok)
  \/ \E c \in ClipIds : ClipEnded(c)
  \/ JsonStopCall

SpecQueue == Init /\ [][NextQueue]_vars

\* the scheduling scenario: the response to the instruction of a start streams
\* SegmentCount equal segments, each arriving at any time of the clock
NextSchedule ==
  \/ StartClick(TRUE, TRUE)
  \/ \E s \in StartIds : TtsLoaded(s, TRUE)
  \/ \E s \in StartIds : TtsSynthesized(s, TRUE)
  \/ \E r \in RequestIds : FetchSettled(r, "ok", TRUE)
  \/ \E r \in RequestIds, n \in 1..MaxChunkBytes : LeadIn(r, n)
  \/ \E r \in RequestIds : ReadSegment(r)
  \/ \E c \in OutputIds : Tick(c)

SpecSchedule == Init /\ [][NextSchedule]_vars

\* ---------------------------------------------------------------- properties
\* the minimum window of processAudioBuffer, in samples
MinSegment == TARGET_SAMPLE_RATE * 2

\* a segment request (a POST made by processAudioBuffer) is outstanding
SegmentOutstanding == \E r \in RequestIds : requests[r].kind = "segment" /\ Outstanding(r)

\* C1: at every instant at most one POST issued through sendAudioPayload is
\* outstanding (the requests started are at most the requests completed plus
\* one), whatever the interleaving of callbacks, ticks, completions, starts
\* and stops. The instruction request of a start is posted without a look
\* at isProcessingRef, so it overlaps a segment request that a stopped
\* session left in flight.
AtMostOneOutstanding == Cardinality({r \in RequestIds : Outstanding(r)}) <= 1

\* C2: the in-flight flag set by a dispatch is cleared when that request
\* completes or fails, on every path (success, non-success status, no body,
\* no response, stream read error, a chunk that cannot be scheduled): the flag
\* is never set without a segment request being outstanding.
FlagReleased == isProcessingRef => SegmentOutstanding

\* a segment request has failed while reading its stream, and the flag is clear
FlagReleasedWitness ==
  /\ statusMessage = "Error: Stream read failed"
  /\ \E r \in RequestIds : requests[r].kind = "segment" /\ requests[r].pc = "ended"
  /\ ~isProcessingRef
  /\ chunkCount > 0

\* C3: after a request that ends with HTTP 500 the flag is released, and
\* with the flag clear a flush tick that finds at least the minimum window in
\* the buffer takes it as a segment and, unless the silence gate discards it,
\* posts it: no failure leaves the pipeline unable to dispatch.
DispatchAfterError ==
  /\ statusMessage = "Error: Server Error: 500" => ~isProcessingRef
  /\ \A t \in intervals :
       /\ Settled
       /\ ~isProcessingRef
       /\ BufferLength(audioBufferRef) >= MinSegment
       /\ FreeRequest \/ IsSilent(audioBufferRef)
       => ENABLED (/\ FlushTick(t)
                   /\ takenCount' = takenCount + Len(audioBufferRef)
                   /\ ~IsSilent(audioBufferRef) => isProcessingRef' /\ statusMessage' = "Translating...")

\* a request has ended with HTTP 500, the timer runs and loud audio of the
\* minimum window has been appended since: the next tick dispatches it
DispatchAfterErrorWitness ==
  /\ statusMessage = "Error: Server Error: 500"
  /\ intervals # {}
  /\ BufferLength(audioBufferRef) >= MinSegment
  /\ ~IsSilent(audioBufferRef)
  /\ FreeRequest

\* C4: a segment is taken from the accumulation buffer only when it holds at
\* least the minimum window and no request is in flight (the in-flight flag is
\* clear and no segment request is outstanding), by the capture callback and
\* by the flush timer alike.
TakenOnlyWhenReady ==
  [][takenCount' > takenCount =>
       /\ (takenCount' - takenCount) * BlockLength >= MinSegment
       /\ ~isProcessingRef
       /\ ~SegmentOutstanding]_vars

\* a segment of between the minimum window and the callback's threshold has
\* been taken (by the flush timer) and posted
TakenOnlyWhenReadyWitness ==
  \E r \in RequestIds :
    /\ requests[r].kind = "segment"
    /\ Outstanding(r)
    /\ BufferLength(requests[r].seg) >= MinSegment
    /\ BufferLength(requests[r].seg) <= TARGET_SAMPLE_RATE * 3

\* the blocks a step has delivered, in order, if all of amplitude amp
Delivered(amp) ==
  [i \in 1..(nextBlockId' - nextBlockId) |-> [id |-> nextBlockId + i - 1, amp |-> amp]]

\* C5: a dispatch takes everything the buffer held (with the blocks the same
\* callback run appended before it) and leaves the buffer without it; the
\* segment posted is exactly what was taken; blocks are numbered in append
\* order and a segment starts after the last block taken before, so that no
\* sample is in two segments and order is kept within and across segments.
DispatchEmptiesBuffer ==
  [][takenCount' > takenCount =>
       \E amp \in {0, LOUD} :
         LET whole == audioBufferRef \o Delivered(amp)
             n == takenCount' - takenCount
         IN /\ n >= Len(audioBufferRef)
            /\ n <= Len(whole)
            /\ audioBufferRef' = SubSeq(whole, n + 1, Len(whole))
            /\ \A r \in RequestIds :
                 requests'[r] # requests[r] => requests'[r].seg = SubSeq(whole, 1, n)
            /\ \A i \in 1..Len(whole) : whole[i].id = takenCount + i]_vars

\* a second segment is in flight: it starts right after the blocks taken before
DispatchEmptiesBufferWitness ==
  \E r \in RequestIds :
    /\ requests[r].kind = "segment"
    /\ Outstanding(r)
    /\ Len(requests[r].seg) > 0
    /\ takenCount > Len(requests[r].seg)
    /\ requests[r].seg[1].id = takenCount - Len(requests[r].seg) + 1

\* C6: blocks delivered while a request is in flight are appended to the
\* buffer, the flag stays set and no request is started; a buffered block
\* leaves the buffer only when a later segment is taken (which, by C5, takes
\* the whole buffer).
AppendedWhileInFlight ==
  [][/\ isProcessingRef /\ nextBlockId' > nextBlockId =>
          /\ \E amp \in {0, LOUD} : audioBufferRef' = audioBufferRef \o Delivered(amp)
          /\ isProcessingRef'
          /\ requests' = requests
          /\ takenCount' = takenCount
     /\ takenCount' = takenCount =>
          /\ Len(audioBufferRef') >= Len(audioBufferRef)
          /\ SubSeq(audioBufferRef', 1, Len(audioBufferRef)) = audioBufferRef]_vars

\* blocks have been appended while a segment request is in flight
AppendedWhileInFlightWitness ==
  /\ isProcessingRef
  /\ SegmentOutstanding
  /\ Len(audioBufferRef) >= BlocksPerBurst

\* C7: segments are posted in the order of accumulation, and the audio of the
\* responses is scheduled in the order in which the requests were posted
\* (request numbers are given in that order): no source is scheduled for a
\* request posted before the request of the source scheduled last. Fails with
\* the instruction requests of a start and its restart, both in flight.
ScheduledInDispatchOrder ==
  [][/\ \A r \in RequestIds :
          requests[r].pc = "none" /\ requests'[r].kind = "segment" =>
            \A i \in 1..Len(requests'[r].seg) : requests'[r].seg[i].id > takenCount
     /\ lastScheduled'.req >= lastScheduled.req]_vars

\* the status texts a failed segment request leaves
ErrorTexts == {"Error: " \o o : o \in (FetchOutcomes \ {"ok"}) \cup {"Stream read failed"}}

\* C8: the failure of a segment request leaves the connection state, the
\* error, the stream and its tracks, the contexts, the nodes and their wiring,
\* the buffer and the flush timer as they are: the status text changes and the
\* flag is released.
FailureKeepsSession ==
  [][\A r \in RequestIds :
       /\ requests[r].kind = "segment"
       /\ Outstanding(r)
       /\ requests'[r].pc = "ended"
       /\ statusMessage' \in ErrorTexts
       => /\ UNCHANGED <<connectionState, error, sourceStream, committedStream, mounted>>
          /\ UNCHANGED <<inputContextRef, outputContextRef, processorRef, sourceNodeRef,
                         audioBufferRef, nextStartTimeRef>>
          /\ UNCHANGED <<platformVars, starts>>
          /\ ~isProcessingRef']_vars

\* a segment request has failed in a connected session, which is still wired
FailureKeepsSessionWitness ==
  /\ statusMessage = "Error: No response body"
  /\ connectionState = CONNECTED
  /\ processorRef # 0
  /\ processorRef \in intervals
  /\ <<processorRef, "processor">> \in connectedNodes
  /\ <<sourceNodeRef, "source">> \in connectedNodes
  /\ inputContextRef \in inputOpen
  /\ <<sourceStream, "audio">> \in liveTracks

\* C9: of two sources scheduled one after the other, the later starts no
\* earlier than the earlier one's start plus its duration.
NoOverlap ==
  [][lastScheduled' # lastScheduled /\ lastScheduled.req # 0 =>
       lastScheduled'.start >= lastScheduled.start + lastScheduled.dur]_vars

\* a source has been scheduled at the cursor its predecessor left
NoOverlapWitness ==
  /\ lastScheduled.req # 0
  /\ ~lastScheduled.late
  /\ lastScheduled.start > 0
  /\ nextStartTimeRef = lastScheduled.start + lastScheduled.dur

\* C10: a source starts at the later of the cursor and the clock of its
\* context: at the cursor, which is the end of its predecessor, when the
\* clock has not passed it, and at the clock when it has; never in the past.
StartsAtLaterOfCursorAndClock ==
  [][lastScheduled' # lastScheduled =>
       LET now == outputContexts'[lastScheduled'.ctx].time
           start == lastScheduled'.start
       IN /\ start = Max(nextStartTimeRef, now)
          /\ nextStartTimeRef >= now => start = nextStartTimeRef
          /\ nextStartTimeRef < now => start = now
          /\ start >= now
          /\ lastScheduled.req # 0 /\ now <= lastScheduled.start + lastScheduled.dur =>
               start = lastScheduled.start + lastScheduled.dur]_vars

\* a source has been scheduled at the clock, which had passed the cursor
StartsAtLaterOfCursorAndClockWitness ==
  /\ lastScheduled.req # 0
  /\ lastScheduled.late
  /\ lastScheduled.start > 0
  /\ outputContexts[lastScheduled.ctx].time = lastScheduled.start

\* C11: the cursor nextStartTimeRef never decreases; a step changes it only
\* by scheduling a source, and then it becomes the later of the old cursor and
\* the clock, plus exactly the duration of that source.
CursorMonotonic ==
  [][/\ nextStartTimeRef' >= nextStartTimeRef
     /\ nextStartTimeRef' # nextStartTimeRef => lastScheduled' # lastScheduled
     /\ lastScheduled' # lastScheduled =>
          /\ lastScheduled'.dur > 0
          /\ nextStartTimeRef' =
               Max(nextStartTimeRef, outputContexts'[lastScheduled'.ctx].time) + lastScheduled'.dur
     /\ lastScheduled' = lastScheduled => nextStartTimeRef' = nextStartTimeRef]_vars

\* the cursor has been reset to the clock and advanced by a second source,
\* and has since outlived a stop
CursorMonotonicWitness ==
  /\ lastScheduled.late
  /\ nextStartTimeRef = lastScheduled.start + lastScheduled.dur
  /\ nextStartTimeRef > lastScheduled.dur
  /\ outputContexts[lastScheduled.ctx].state = "closed"

\* C12 as stated: SegmentCount equal segments read one after the other start
\* at t0, t0 + Second, t0 + 2 * Second, ..., whenever each of them arrives.
SegmentsBackToBack ==
  \A i \in 1..Len(enqueued) : enqueued[i].start = enqueued[1].start + (i - 1) * Second

\* C12, amended: a segment that arrives no later than the end of its
\* predecessor starts exactly at that end (so segments that all arrive in time
\* start at t0, t0 + Second, t0 + 2 * Second, ...); one that arrives later
\* starts at the clock time of its arrival; in both cases it does not overlap
\* its predecessor.
SegmentsBackToBackInTime ==
  /\ \A i \in 1..Len(enqueued) : enqueued[i].dur = Second
  /\ \A i \in 2..Len(enqueued) :
       LET end == enqueued[i - 1].start + Second
       IN /\ enqueued[i].now <= end => enqueued[i].start = end
          /\ enqueued[i].now > end => enqueued[i].start = enqueued[i].now
          /\ enqueued[i].start >= end
  /\ (\A i \in 2..Len(enqueued) : enqueued[i].now <= enqueued[i - 1].start + Second)
       => \A i \in 1..Len(enqueued) : enqueued[i].start = enqueued[1].start + (i - 1) * Second

\* all the segments have been enqueued, each at a later clock time than the
\* one before and none after its predecessor's end; t0 is not 0
SegmentsBackToBackInTimeWitness ==
  /\ Len(enqueued) = SegmentCount
  /\ enqueued[1].start > 0
  /\ \A i \in 2..Len(enqueued) :
       /\ enqueued[i].now > enqueued[i - 1].now
       /\ enqueued[i].now <= enqueued[i - 1].start + Second
       /\ enqueued[i].start = enqueued[1].start + (i - 1) * Second

\* what a session acquires: the flush timers, the connected source and
\* processor nodes, the live capture tracks, the open input contexts and the
\* open output contexts
OpenOutputs == {c \in OutputIds : outputContexts[c].state \in {"running", "suspended"}}

AllReleased ==
  /\ intervals = {}
  /\ connectedNodes = {}
  /\ liveTracks = {}
  /\ inputOpen = {}
  /\ OpenOutputs = {}

\* C14: after a stop, in whatever state and at whatever stage of a start it is
\* requested, every flush timer, node, capture track, input context and output
\* context is released.
StopReleasesAll == [][StopCall => AllReleased']_vars

\* a state that stopTranslation leaves as it is: Disconnected, no status text,
\* no stream held, and no node or open context behind the refs
StopChangesNothing ==
  /\ connectionState = DISCONNECTED
  /\ statusMessage = ""
  /\ sourceStream = 0
  /\ processorRef = 0
  /\ sourceNodeRef = 0
  /\ inputContextRef \notin inputOpen
  /\ outputContextRef \notin OpenOutputs

\* C13: a stop, on a session never started or already stopped as on any
\* other, leaves the state Disconnected and nothing acquired, and a second stop
\* after it changes nothing.
StopIdempotent ==
  [][StopCall => /\ connectionState' = DISCONNECTED
                 /\ StopChangesNothing'
                 /\ AllReleased']_vars

\* what start s has acquired and not released
HeldBy(s) ==
  {t \in liveTracks : t[1] = s} \cup {n \in connectedNodes : n[1] = s}
    \cup {<<c, "input">> : c \in inputOpen \cap {s}} \cup {<<i, "interval">> : i \in intervals \cap {s}}

\* start s ends in this step without having connected
StartFails(s) ==
  /\ starts[s].pc \notin {"idle", "done"}
  /\ starts'[s].pc = "done"
  /\ connectionState' # CONNECTED

\* C15: a start that fails at any step, the steps after the creation of the
\* input context included, ends in state Error with an error message and with
\* no capture track, node, input context or timer of its own left open.
FailedStartReleasesAll ==
  [][\A s \in StartIds : StartFails(s) =>
        /\ connectionState' = ERROR
        /\ error' # ""
        /\ HeldBy(s)' = {}]_vars

\* the session has been stopped and nothing of it is left that could send: the
\* state is Disconnected, no start is in progress, no timer runs and no node is
\* connected, so every request still outstanding was in flight at the stop
StoppedSession ==
  /\ connectionState = DISCONNECTED
  /\ \A s \in StartIds : starts[s].pc \in {"idle", "done"}
  /\ intervals = {}
  /\ connectedNodes = {}

\* C16: what a request in flight delivers after the session has been stopped
\* is discarded: no source is scheduled and no output context is created or
\* reopened.
LateChunkDiscarded ==
  [][StoppedSession => /\ lastScheduled' = lastScheduled
                       /\ nextStartTimeRef' = nextStartTimeRef
                       /\ OpenOutputs' \subseteq OpenOutputs]_vars

\* start s, the only one so far, is suspended before it has a capture stream
\* (text-to-speech warm-up, the request of the instruction, the consent of
\* getDisplayMedia) and the state is Disconnected: StartClick has set
\* Connecting, and only a stop requested since then, with the component still
\* mounted, can have reset it
StoppedWhileSuspended(s) ==
  /\ starts[s].pc \in {"ttsLoad", "ttsSynth", "ttsSend", "ttsDelay", "getMedia"}
  /\ \A t \in StartIds \ {s} : starts[t].pc = "idle"
  /\ connectionState = DISCONNECTED
  /\ mounted

\* C17: a start that was stopped while it was suspended acquires and wires
\* nothing when it resumes, starts no flush timer and does not set Connected.
StoppedStartAcquiresNothing ==
  [][\A s \in StartIds : StoppedWhileSuspended(s) =>
        /\ HeldBy(s)' = {}
        /\ sourceStream' # s
        /\ connectionState' # CONNECTED]_vars

\* the steps of a start: the warm-up (the instruction is synthesized and
\* sent), the capture, the probe, the wiring
WarmUp == {"ttsLoad", "ttsSynth", "ttsSend", "ttsDelay"}

\* the position of a step in the order of startTranslation
CodeOrder(pc) ==
  CASE pc = "idle" -> 0
    [] pc \in WarmUp -> 1
    [] pc = "getMedia" -> 2
    [] pc = "probe" -> 3
    [] pc = "resume" -> 4
    [] pc = "done" -> 5

\* the position of a step in the order capture, warm-up, probe, wiring
CaptureFirstOrder(pc) ==
  CASE pc = "idle" -> 0
    [] pc = "getMedia" -> 1
    [] pc \in WarmUp -> 2
    [] pc = "probe" -> 3
    [] pc = "resume" -> 4
    [] pc = "done" -> 5

WarmUpFailureAborts ==
  [][\A s \in StartIds : starts[s].pc = "ttsDelay" =>
        /\ starts'[s].pc \in {"ttsDelay", "done"}
        /\ starts'[s].pc = "done" => connectionState' = ERROR /\ HeldBy(s)' = {}]_vars

\* C20: whatever the probe of a start answers, and if it does not answer, the
\* start goes on with the wiring: the step that follows the probe creates the
\* input context (and the start ends Connected unless the wiring itself fails).
ProbeFailureNotFatal ==
  [][\A s \in StartIds : (starts[s].pc = "probe" /\ starts'[s].pc # "probe") =>
        /\ s \in inputOpen'
        /\ starts'[s].pc = "done" => connectionState' = CONNECTED \/ error' = "Failed to start session"]_vars

\* start s is in progress, it is the only start so far, and the state is still
\* the Connecting that StartClick has set: no stop has been requested since
OnlyStartConnecting(s) ==
  /\ starts[s].pc \notin {"idle", "done"}
  /\ \A t \in StartIds \ {s} : starts[t].pc = "idle"
  /\ connectionState = CONNECTING

\* a stop is requested, or the component is torn down
StopRequested == StopClick \/ StopCall \/ Unmount

\* C21: a start during which no stop and no unmount is requested, and no step
\* of which fails, leaves Connecting only for Connected.
ConnectingToConnected ==
  [][\A s \in StartIds : (OnlyStartConnecting(s) /\ ~StopRequested /\ connectionState' # ERROR) =>
        connectionState' \in {CONNECTING, CONNECTED}]_vars

\* the capture step of start s ends the start with no audio track acquired:
\* getDisplayMedia was rejected, or the stream it granted has no audio track
CaptureFails(s) ==
  /\ starts[s].pc = "getMedia"
  /\ starts'[s].pc = "done"
  /\ <<s, "audio">> \notin liveTracks'

\* C22: a start whose capture step fails ends in state Error with an error
\* message, with every track of the stream it was granted stopped and with
\* nothing wired.
CaptureFailureAborts ==
  [][\A s \in StartIds : CaptureFails(s) =>
        /\ connectionState' = ERROR
        /\ error' # ""
        /\ HeldBy(s)' = {}]_vars

\* C23: the state becomes Disconnected only in a step that is a stop request
\* or the teardown of the component.
DisconnectedOnlyByStop ==
  [][(connectionState # DISCONNECTED /\ connectionState' = DISCONNECTED) => StopRequested]_vars

\* the edges of the session state machine
StateEdges ==
  {<<DISCONNECTED, CONNECTING>>, <<CONNECTING, CONNECTED>>, <<CONNECTING, ERROR>>,
   <<CONNECTED, ERROR>>, <<CONNECTED, DISCONNECTED>>, <<ERROR, DISCONNECTED>>}

\* a start request that fails before its first await: Connecting and Error
\* are set in the same turn
StartFailsAtOnce ==
  /\ connectionState = DISCONNECTED
  /\ connectionState' = ERROR
  /\ \E s \in StartIds : starts[s].pc = "idle" /\ starts'[s].pc = "done"

\* C24: every change of the connection state follows an edge of the state
\* machine (a stop request may also leave Connecting for Disconnected); in
\* particular Connecting is entered only from Disconnected and Connected only
\* from Connecting.
StateFollowsEdges ==
  [][connectionState' # connectionState =>
        \/ <<connectionState, connectionState'>> \in StateEdges
        \/ StartFailsAtOnce
        \/ StopRequested /\ connectionState = CONNECTING]_vars

\* statement a of stopTranslation has released something before statement b
\* has, or one of the two has released nothing
ReleasedBefore(a, b) ==
  \A i, j \in 1..Len(released) : (released[i] = a /\ released[j] = b) => i < j

\* C25 as stated: a teardown releases the timer, then the nodes, then the
\* tracks of the stream, then the input context, then the output context.
TeardownNodesBeforeTracks ==
  /\ \A k \in {"processor", "source", "tracks", "input", "output"} : ReleasedBefore("interval", k)
  /\ \A k \in {"tracks", "input", "output"} : ReleasedBefore("processor", k) /\ ReleasedBefore("source", k)
  /\ \A k \in {"input", "output"} : ReleasedBefore("tracks", k)
  /\ ReleasedBefore("input", "output")

\* C25, amended: a teardown releases the timer, then the tracks of the
\* stream, then the processor node, then the source node, then the input
\* context, then the output context.
TeardownTracksBeforeNodes ==
  /\ \A k \in {"tracks", "processor", "source", "input", "output"} : ReleasedBefore("interval", k)
  /\ \A k \in {"processor", "source", "input", "output"} : ReleasedBefore("tracks", k)
  /\ \A k \in {"source", "input", "output"} : ReleasedBefore("processor", k)
  /\ \A k \in {"input", "output"} : ReleasedBefore("source", k)
  /\ ReleasedBefore("input", "output")
  /\ \A i, j \in 1..Len(released) : released[i] = released[j] => i = j

\* a call of stopTranslation has returned after releasing something of each
\* kind, and nothing is left
TeardownTracksBeforeNodesWitness ==
  /\ teardownPc = 0
  /\ Len(released) = 6
  /\ connectionState = DISCONNECTED
  /\ intervals = {} /\ liveTracks = {} /\ connectedNodes = {} /\ inputOpen = {}

\* the buffer holds the minimum window but has not passed the level at which
\* the capture callback dispatches
BelowTrigger(buf) ==
  BufferLength(buf) >= MinSegment /\ BufferLength(buf) <= TARGET_SAMPLE_RATE * 3

\* C26: while the session is Connected a flush timer runs, and when the buffer
\* holds the minimum window (short of the callback's trigger level) with no
\* request in flight, the timer's next tick, with no further block
\* arriving, takes the whole buffer as a segment and, unless the silence gate
\* discards it, posts it.
FlushTickDispatches ==
  (/\ connectionState = CONNECTED
   /\ Settled
   /\ ~isProcessingRef
   /\ ~SegmentOutstanding
   /\ BelowTrigger(audioBufferRef)
   /\ FreeRequest \/ IsSilent(audioBufferRef))
  => /\ intervals # {}
     /\ \A t \in intervals :
          ENABLED (/\ FlushTick(t)
                   /\ audioBufferRef' = <<>>
                   /\ takenCount' = takenCount + Len(audioBufferRef)
                   /\ nextBlockId' = nextBlockId
                   /\ ~IsSilent(audioBufferRef) =>
                        /\ isProcessingRef'
                        /\ \E r \in RequestIds : requests'[r].kind = "segment" /\ requests'[r].pc = "fetch"
                                                   /\ requests'[r].seg = audioBufferRef)

\* in a Connected session a segment short of the trigger level has been posted
\* (by a tick, then) and the buffer is empty
FlushTickDispatchesWitness ==
  /\ connectionState = CONNECTED
  /\ intervals # {}
  /\ audioBufferRef = <<>>
  /\ isProcessingRef
  /\ \E r \in RequestIds : /\ requests[r].kind = "segment"
                            /\ requests[r].pc = "fetch"
                            /\ BelowTrigger(requests[r].seg)

\* the sum of |sample| over all the samples of a segment
RECURSIVE SumAllAbs(_, _)
SumAllAbs(seg, b) == IF b > Len(seg) THEN 0 ELSE seg[b].amp * BlockLength + SumAllAbs(seg, b + 1)

\* the mean absolute amplitude of the segment is below the silence threshold
MeanBelowThreshold(seg) == SumAllAbs(seg, 1) < SILENCE_THRESHOLD * BufferLength(seg)

\* the blocks that BlocksPerBurst callbacks of amplitude amp deliver next
NextBlocks(amp) == [i \in 1..BlocksPerBurst |-> [id |-> nextBlockId + i - 1, amp |-> amp]]

\* the segment that a step of the pipeline takes from whole, and what it leaves
TakenFrom(whole) == SubSeq(whole, 1, takenCount' - takenCount)
LeftOf(whole) == SubSeq(whole, takenCount' - takenCount + 1, Len(whole))

\* the step discards the segment it takes from whole
Discards(whole) ==
  /\ requests' = requests
  /\ ~isProcessingRef'
  /\ audioBufferRef' = LeftOf(whole)

Playing == {c \in ClipIds : clips[c] = "playing"}

\* C28: in the queued playback at most one clip plays at any time: every
\* started clip but the last has ended, and the clips were started in the
\* order they were queued.
OneClipAtATime ==
  /\ Cardinality(Playing) <= 1
  /\ \A i \in 1..Len(startedClips) :
       /\ i < Len(startedClips) => clips[startedClips[i]] = "ended"
       /\ \A j \in 1..Len(startedClips) : i < j => startedClips[i] < startedClips[j]

\* the decode of clip c fails in this step
DecodeFails(c) == clips[c] = "decoding" /\ clips'[c] = "dropped"

WhisperSegments == {r \in RequestIds : requests[r].kind = "segment"}

\* the segment holds about 3 s of audio at the Whisper rate: within one
\* capture block of it
AboutThreeSeconds(seg) ==
  /\ WhisperLength(seg) <= WHISPER_SAMPLE_RATE * 3 + WhisperBlockLength
  /\ WhisperLength(seg) >= WHISPER_SAMPLE_RATE * 3 - WhisperBlockLength

\* C30: once 3 seconds of audio captured at 44100 Hz have been fed to a
\* started session of the Whisper variant (minimum window 2.0 s, 16000 Hz),
\* at most one segment has been dispatched, it holds about 48000 samples, and
\* if none has been dispatched yet the next flush tick dispatches it.
FeedDispatchesOnce ==
  (nextBlockId > FeedBlocks /\ Settled)
  => /\ Cardinality(WhisperSegments) <= 1
     /\ \A r \in WhisperSegments : AboutThreeSeconds(requests[r].seg)
     /\ WhisperSegments = {} =>
          ENABLED (/\ WhisperSecond
                   /\ \E r \in RequestIds : /\ requests'[r].kind = "segment"
                                             /\ AboutThreeSeconds(requests'[r].seg))

\* downsampleBuffer has returned for a call with rates sampleRate and outSampleRate
Resampled == utilCall.fn = "downsampleBuffer" /\ utilResult.done

\* C31: downsampleBuffer(x, r, r) returns x unchanged, for every buffer x and
\* every rate r.
SameRateIsIdentity ==
  (Resampled /\ utilCall.sampleRate = utilCall.outSampleRate)
  => ~utilResult.threw /\ utilResult.value = utilCall.buffer

\* a buffer of MaxSamples samples, not all alike, has come back from a call
\* with equal rates
SameRateIsIdentityWitness ==
  /\ Resampled
  /\ utilCall.sampleRate = utilCall.outSampleRate
  /\ Len(utilCall.buffer) = MaxSamples
  /\ utilCall.buffer[1] # utilCall.buffer[2]
  /\ utilResult.value = utilCall.buffer

\* C32: for rateOut <= rateIn the length of the result of downsampleBuffer
\* differs from round(inputLength * rateOut / rateIn) by at most 1.
ResampledLengthWithinOne ==
  (Resampled /\ utilCall.outSampleRate <= utilCall.sampleRate)
  => /\ ~utilResult.threw
     /\ Abs(Len(utilResult.value)
            - RoundDiv(Len(utilCall.buffer) * utilCall.outSampleRate, utilCall.sampleRate)) <= 1

\* a buffer has been downsampled to a lower rate and to fewer samples
ResampledLengthWithinOneWitness ==
  /\ Resampled
  /\ utilCall.outSampleRate < utilCall.sampleRate
  /\ Len(utilCall.buffer) = MaxSamples
  /\ Len(utilResult.value) > 0
  /\ Len(utilResult.value) < MaxSamples

\* samples x and y differ by at most one 16-bit quantization step (1/32768)
WithinOneStep(x, y) == Abs(x.n * y.d - y.n * x.d) * 32768 <= x.d * y.d

\* C33: decoding what encodeWAV made of samples x in [-1, 1] returns as many
\* samples as x holds, each within one 16-bit quantization step of the
\* sample of x at its place (so none of them comes from the header).
WavRoundTrip ==
  (utilCall.fn = "decodeAudioData" /\ utilResult.done)
  => /\ Len(utilResult.value) = Len(utilCall.samples)
     /\ \A i \in 1..Len(utilCall.samples) : WithinOneStep(utilCall.samples[i], utilResult.value[i])

\* C34: the accumulation buffer loses blocks only in a step that takes a
\* segment from it. In every other step (a refused flush tick, a response
\* arriving, ending or failing, a stop, a start and its steps) it is exactly
\* what it was, and a capture callback run that takes no segment only appends
\* to it.
BufferEmptiedOnlyByDispatch ==
  [][takenCount' = takenCount =>
       IF nextBlockId' > nextBlockId
         THEN \E amp \in {0, LOUD} : audioBufferRef' = audioBufferRef \o Delivered(amp)
         ELSE audioBufferRef' = audioBufferRef]_vars

\* blocks appended after a segment was taken are still in the buffer after a
\* stop
BufferEmptiedOnlyByDispatchWitness ==
  /\ connectionState = DISCONNECTED
  /\ intervals = {}
  /\ takenCount > 0
  /\ audioBufferRef # <<>>
  /\ audioBufferRef[1].id = takenCount + 1

\* the capture pipeline of start s is wired: its audio track is live, its input
\* context is open with the processor connected, and its flush timer runs
Wired(s) ==
  /\ <<s, "audio">> \in liveTracks
  /\ s \in inputOpen
  /\ <<s, "processor">> \in connectedNodes
  /\ s \in intervals

\* C35: whenever the connection state is Connected, a capture pipeline is
\* wired: a live audio track, an open input context with its processor node
\* connected, and a running flush timer.
ConnectedIsWired == connectionState = CONNECTED => \E s \in StartIds : Wired(s)

\* no startTranslation call is between its first statement and its return
NoStartInProgress == \A s \in StartIds : starts[s].pc \in {"idle", "done"}

\* C36: whenever the state is Disconnected or Error and no start is in
\* progress, no session resource is live: no running track, no connected
\* processor or source node, no open input or output context and no running
\* flush timer.
IdleHoldsNothing ==
  (connectionState \in {DISCONNECTED, ERROR} /\ NoStartInProgress)
    => /\ liveTracks = {}
       /\ connectedNodes = {}
       /\ inputOpen = {}
       /\ OpenOutputs = {}
       /\ intervals = {}

\* the starts whose processor node is connected in an open input context
LivePipelines == {s \in StartIds : <<s, "processor">> \in connectedNodes /\ s \in inputOpen}

\* a step leaves a handle pointing where it pointed, or what it pointed to is
\* no longer live after the step
HandleKept(old, new, live) == new = old \/ old = 0 \/ old \notin live

\* C37: at most one flush timer and at most one capture pipeline are live at
\* any time, and no step overwrites the handle of an input context, of a
\* processor node (which carries the timer's handle) or of a source node whose
\* resource is still live.
OnePipelineAtATime ==
  [][/\ Cardinality(intervals') <= 1
     /\ Cardinality(LivePipelines') <= 1
     /\ HandleKept(inputContextRef, inputContextRef', inputOpen')
     /\ HandleKept(processorRef, processorRef',
                   intervals' \cup {s \in StartIds : <<s, "processor">> \in connectedNodes'})
     /\ HandleKept(sourceNodeRef, sourceNodeRef',
                   {s \in StartIds : <<s, "source">> \in connectedNodes'})]_vars

\* a start completes its wiring while no other pipeline and no timer is live:
\* a session begins
SessionBegins ==
  /\ LivePipelines = {}
  /\ intervals = {}
  /\ \E s \in StartIds : starts[s].pc # "done" /\ starts'[s].pc = "done" /\ Wired(s)'

\* C38: the first segment dispatched in a session holds only blocks captured
\* in that session. Blocks are numbered in capture order and the buffer holds
\* the blocks captured and not yet taken, which the next dispatch takes whole
\* (C5): the session's first segment is free of earlier audio exactly if the
\* buffer is empty when the session begins.
FirstSegmentFromSession == [][SessionBegins => audioBufferRef' = <<>>]_vars

\* after the step, the source scheduled last before it has finished playing:
\* its end lies behind the clock of its context, or its context is closed
PreviousFinished ==
  \/ lastScheduled.req = 0
  \/ outputContexts'[lastScheduled.ctx].state = "closed"
  \/ outputContexts'[lastScheduled.ctx].time >= lastScheduled.start + lastScheduled.dur

\* C39: a source scheduled when every source scheduled before it has finished
\* playing starts at the current time of its output context, also when that
\* context has been created anew after a stop and a start.
IdleStartsAtClock ==
  [][lastScheduled' # lastScheduled /\ PreviousFinished =>
       lastScheduled'.start = outputContexts'[lastScheduled'.ctx].time]_vars

\* C40: the samples scheduled for a streamed response are those of its bytes
\* taken pair by pair, in order, however the body was split into chunks.
ChunkingIrrelevant ==
  (utilCall.fn = "sendAudioPayload" /\ utilResult.done)
    => utilResult.value = ConvertInt16ToFloat32(utilCall.body)

====
